---- MODULE Spec2Model ----
(***************************************************************************)
(* wasm-streams: Rust wrappers around the host's (WHATWG) streams.         *)
(*                                                                         *)
(* The model has one host readable stream and one host writable stream.    *)
(* On the Rust side it has the readers of src/readable/mod.rs (kind        *)
(* "new": the reader owns its raw reader), the readers of                  *)
(* src/readable_stream/mod.rs (kind "opt": the raw reader sits in an       *)
(* Option that release_lock clears), the writers of src/writable/mod.rs    *)
(* and the IntoStream of src/readable/into_stream.rs.                      *)
(*                                                                         *)
(* The host itself is reached through the sys bindings, which are not      *)
(* part of the sources; its operations (Host...) follow the behaviour the  *)
(* wrappers' documentation states and the Streams Standard they cite.      *)
(***************************************************************************)
EXTENDS Integers, Sequences, FiniteSets, TLC

\* ------------------------------------------------------------------ bounds
MaxLen == 2         \* longest list of chunks the native source produces
MaxReaders == 2     \* reader objects created in one run
MaxWriters == 2     \* writer objects created in one run
MaxReqs == 2        \* read requests queued in the host at one time
MaxWrites == 2      \* writes in flight in the host at one time

\* The high water mark from_stream sets, and the host's default.
FromStreamHWM == 0
DefaultHWM == 1

Chunks == {"a", "b"}
Readers == 1 .. MaxReaders
Writers == 1 .. MaxWriters

\* Who a pending host read request will be delivered to: the future of a
\* reader's read(), the future cached by IntoStream, or nobody (the Rust
\* future was dropped, the host request stays queued).
Abandoned == -1
StreamFut == 0
\* The readers the host makes for itself: the one pipeTo reads the source
\* with, and the one tee reads the original stream with.
PipeFut == -2
TeeFut == -3
Holders == {TeeFut, PipeFut, StreamFut} \cup Readers

RECURSIVE SeqsUpTo(_)
SeqsUpTo(n) ==
  IF n = 0 THEN {<<>>}
  ELSE LET S == SeqsUpTo(n - 1)
       IN  S \cup {Append(s, c) : s \in {t \in S : Len(t) = n - 1}, c \in Chunks}

Range(s) == {s[i] : i \in DOMAIN s}

VARIABLES
  rs,        \* the host readable stream: state, queue, closeReq, locked, reqs
  src,       \* what the underlying source still has to produce, and how it ends
  rd,        \* the Rust readers: kind and whether they still own a raw reader
  futs,      \* the read future of each holder (a reader's read(), IntoStream.fut)
  stream,    \* the IntoStream: whether it exists, and its reader field
  ws,        \* the host writable stream: state, locked, reqs (writes in flight)
  wr,        \* the Rust writers
  out,       \* the items the IntoStream has yielded so far
  calls,     \* the host calls the last step made, in order
  ret,       \* what the last step returned to its caller
  panicked,  \* a panic / throw has unwound the program
  pipe,      \* the pipe_to in progress: options, the host's pipe, its promise
  tee,       \* the tee of the stream: the two branches and their cancellation
  hooks,     \* the calls the underlying source's and sink's hooks have received
  sink,      \* the IntoSink: whether it exists, its writer field, what it was sent
  js         \* the callback closures of a wrapper and the borrow of its backing object

vars == <<rs, src, rd, futs, stream, ws, wr, out, calls, ret, panicked, pipe, tee, hooks,
          sink, js>>

\* No pipe_to has been called.
NoPipe == [st |-> "none", asked |-> {}, opts |-> {}, promise |-> "none", fut |-> "none",
           act |-> "none", first |-> "", err |-> "", sent |-> <<>>]

\* The stream has not been teed.
NoBranch == [state |-> "readable", queue |-> <<>>, want |-> FALSE, got |-> <<>>]
NoTee == [st |-> "none", reading |-> FALSE, canceled |-> <<FALSE, FALSE>>,
          reasons |-> <<"", "">>, asked |-> <<"", "">>, br |-> <<NoBranch, NoBranch>>]

\* No hook of the underlying source or sink has been called.
NoHooks == [start |-> 0, cancel |-> <<>>, abort |-> <<>>, close |-> 0, written |-> <<>>]

\* No IntoSink has been made (writer 0 stands for None).
NoSink == [st |-> "absent", writer |-> 0, sent |-> <<>>]

\* No stream has been made from a backing object.
NoJs == [kind |-> "none", wrapper |-> "none", closures |-> "none", borrow |-> "none",
         inflight |-> {}, deadcall |-> FALSE, map |-> "id"]

\* ---------------------------------------------------------------- the host
\* The raw streams behind the sys bindings.

\* A read request settles: the holder's future gets the result.
Settle(f, h, res) == IF h \in Holders THEN [f EXCEPT ![h] = res] ELSE f

\* Every queued read request settles with res.
SettleAll(f, reqs, res) ==
  [h \in Holders |-> IF h \in Range(reqs) THEN res ELSE f[h]]

\* stream.getReader(): fails on a locked stream, else locks it to reader r.
HostGetReaderOk(s) == s.locked = 0
HostGetReader(s, r) == IF HostGetReaderOk(s) THEN [s EXCEPT !.locked = r] ELSE s

\* reader.read() for holder h of reader r: the new stream and futures.
\* A closed stream answers done, an errored one rejects, a queued chunk is
\* handed out at once, else the request is queued.
HostRead(s, f, r, h) ==
  IF s.locked # r THEN <<s, Settle(f, h, "err")>>
  ELSE IF s.state = "closed" THEN <<s, Settle(f, h, "done")>>
  ELSE IF s.state = "errored" THEN <<s, Settle(f, h, "err")>>
  ELSE IF s.queue # <<>> THEN
    LET q == Tail(s.queue)
    IN  <<[s EXCEPT !.queue = q,
                    !.state = IF s.closeReq /\ q = <<>> THEN "closed" ELSE "readable"],
          Settle(f, h, Head(s.queue))>>
  ELSE <<[s EXCEPT !.reqs = Append(s.reqs, h)], Settle(f, h, "pending")>>

\* reader.releaseLock(): nothing to do for a reader that holds no lock;
\* refused while one of its read requests is pending.
HostReleaseOk(s, r) == s.locked # r \/ s.reqs = <<>>
HostRelease(s, r) ==
  IF s.locked = r /\ HostReleaseOk(s, r) THEN [s EXCEPT !.locked = 0] ELSE s

\* reader.closed of reader r: fulfilled once the stream is closed, rejected
\* once it is errored or the reader has released its lock before that.
HostClosed(s, r) ==
  IF s.locked # r THEN "err"
  ELSE IF s.state = "closed" THEN "ok"
  ELSE IF s.state = "errored" THEN "err"
  ELSE "pending"

\* controller.enqueue(c): the oldest read request gets the chunk, else it
\* is queued.
HostEnqueue(s, f, c) ==
  IF s.reqs # <<>>
  THEN <<[s EXCEPT !.reqs = Tail(s.reqs)], Settle(f, Head(s.reqs), c)>>
  ELSE <<[s EXCEPT !.queue = Append(s.queue, c)], f>>

\* controller.close(): closes once the queue is drained; every pending read
\* request settles with done.
HostClose(s, f) ==
  IF s.queue # <<>> THEN <<[s EXCEPT !.closeReq = TRUE], f>>
  ELSE <<[s EXCEPT !.state = "closed", !.reqs = <<>>], SettleAll(f, s.reqs, "done")>>

\* controller.error(e), or a rejected pull: the queue is dropped and every
\* pending read request rejects.
HostError(s, f) ==
  <<[s EXCEPT !.state = "errored", !.queue = <<>>, !.reqs = <<>>],
    SettleAll(f, s.reqs, "err")>>

\* stream.cancel(reason) / reader.cancel(reason) on a readable stream: the
\* queue is dropped, the stream is closed and every pending read request
\* settles with done.
HostCancel(s, f) ==
  <<[s EXCEPT !.state = "closed", !.queue = <<>>, !.reqs = <<>>, !.closeReq = FALSE],
    SettleAll(f, s.reqs, "done")>>

\* The errors a pipe can meet: the stored error of the source, that of the
\* destination, the TypeError the host makes itself, and the rejection of a
\* cancel, abort or close hook.
SrcErr == "SrcErr"
SinkErr == "SinkErr"
TypeError == "TypeError"

\* source.pipeTo(dest, options): rejected at once if either stream is
\* locked; else both are locked to the pipe and the promise is pending.
HostPipeTo(s, d, o) ==
  IF s.locked # 0 \/ d.locked # 0
  THEN <<s, d, [NoPipe EXCEPT !.st = "done", !.opts = o, !.promise = "err",
                               !.first = TypeError, !.err = TypeError]>>
  ELSE <<[s EXCEPT !.locked = PipeFut], [d EXCEPT !.locked = PipeFut],
         [NoPipe EXCEPT !.st = "piping", !.opts = o, !.promise = "pending"]>>

\* The conditions that shut a pipe down, of which the host acts on one:
\* the source errored or closed, the destination errored, or the
\* destination closing or closed (which only the start of the pipe can meet).
PipeRules(s, d) ==
  {x \in {"srcErr", "dstErr", "srcClosed", "dstClosed"} :
     \/ x = "srcErr" /\ s.state = "errored"
     \/ x = "dstErr" /\ d.state = "errored"
     \/ x = "srcClosed" /\ s.state = "closed"
     \/ x = "dstClosed" /\ d.state \in {"closing", "closed"}}

\* What the pipe does to the other stream under a rule, given the options.
PipeAction(x, o) ==
  IF x = "srcErr" THEN (IF "prevent_abort" \in o THEN "none" ELSE "abort")
  ELSE IF x = "srcClosed" THEN (IF "prevent_close" \in o THEN "none" ELSE "close")
  ELSE (IF "prevent_cancel" \in o THEN "none" ELSE "cancel")

\* The error a rule shuts the pipe down with ("" for none).
PipeError(x) ==
  IF x = "srcErr" THEN SrcErr
  ELSE IF x = "dstErr" THEN SinkErr
  ELSE IF x = "dstClosed" THEN TypeError
  ELSE ""

\* Whether the host calls the source's pull hook.
HostShouldPull(s) ==
  /\ s.state = "readable"
  /\ ~s.closeReq
  /\ \/ s.locked # 0 /\ s.reqs # <<>>
     \/ src.hwm - Len(s.queue) > 0

\* stream.getWriter(): fails on a locked stream, else locks it to writer w.
HostGetWriterOk(s) == s.locked = 0
HostGetWriter(s, w) == IF HostGetWriterOk(s) THEN [s EXCEPT !.locked = w] ELSE s

\* writer.write(chunk) by writer w: rejected at once by a writer without
\* the lock or a stream that is not writable (errored, closing, closed,
\* aborted), else in flight until the sink settles it.
HostWrite(s, f, w) ==
  IF s.locked # w \/ s.state # "writable"
  THEN <<s, [f EXCEPT ![w].fut = "err"]>>
  ELSE <<[s EXCEPT !.reqs = Append(s.reqs, w)], [f EXCEPT ![w].fut = "pending"]>>

\* The owner of a settled write gets its result, unless it dropped the future.
SettleWrite(f, w, res) == IF w \in DOMAIN f THEN [f EXCEPT ![w].fut = res] ELSE f

\* The sink accepts the oldest write in flight.
HostWriteOk(s, f) == <<[s EXCEPT !.reqs = Tail(s.reqs)], SettleWrite(f, Head(s.reqs), "ok")>>

\* The sink rejects: the stream errors, every write in flight rejects, and
\* so does a close waiting behind them.
HostWriteErr(s, f) ==
  <<[s EXCEPT !.state = "errored", !.reqs = <<>>],
    [w \in DOMAIN f |-> IF w \in Range(s.reqs) THEN [f[w] EXCEPT !.fut = "err"]
                        ELSE IF f[w].fut = "closing" THEN [f[w] EXCEPT !.fut = "close_err"]
                        ELSE f[w]]>>

\* writer.releaseLock(): nothing to do for a writer without the lock. With
\* a write in flight the host may refuse (refuse is the host's choice).
HostWriterReleaseOk(s, w, refuse) == s.locked # w \/ s.reqs = <<>> \/ ~refuse
HostWriterRelease(s, w, refuse) ==
  IF s.locked = w /\ HostWriterReleaseOk(s, w, refuse) THEN [s EXCEPT !.locked = 0] ELSE s

\* Result of polling a JsFuture: ready only once its promise has settled.
\* The first poll, right after the future was made, is never ready: the
\* promise's callbacks run on a later turn of the host's job queue.
Settled(f) == f \notin {"none", "pending"}

\* ------------------------------------------------------------- bookkeeping
Ret(op, who, res, val) == [op |-> op, who |-> who, res |-> res, val |-> val]

Fresh == {r \in Readers : rd[r].st = "unborn"}
NewReader == CHOOSE r \in Fresh : \A q \in Fresh : r <= q

\* The fields of IntoStream (0 stands for None).
reader == stream.reader
fut == futs[StreamFut]

\* A reader the caller still holds: made, not dropped, not moved into the
\* IntoStream, and not borrowed by a read() future.
Held(r) ==
  /\ rd[r].st \in {"live", "released"}
  /\ ~(stream.st = "live" /\ stream.reader = r)
Idle(r) == Held(r) /\ futs[r] = "none"

\* A dropped read() future leaves its host request queued, owned by nobody.
Orphan(reqs, h) == [i \in DOMAIN reqs |-> IF reqs[i] = h THEN Abandoned ELSE reqs[i]]

Init ==
  /\ rs = [state |-> "readable", queue |-> <<>>, closeReq |-> FALSE,
           locked |-> 0, reqs |-> <<>>]
  /\ \E l \in SeqsUpTo(MaxLen), e \in {"close", "error", "idle"}, h \in {FromStreamHWM, DefaultHWM} :
       src = [all |-> l, items |-> l, end |-> e, hwm |-> h]
  /\ rd = [r \in Readers |-> [kind |-> "none", st |-> "unborn"]]
  /\ futs = [h \in Holders |-> "none"]
  /\ stream = [st |-> "absent", reader |-> 0]
  /\ ws = [state |-> "writable", locked |-> 0, reqs |-> <<>>]
  /\ wr = [w \in Writers |-> [st |-> "unborn", fut |-> "none"]]
  /\ out = <<>>
  /\ calls = <<>>
  /\ ret = Ret("init", 0, "", "")
  /\ panicked = FALSE
  /\ pipe = NoPipe
  /\ tee = NoTee
  /\ hooks = NoHooks
  /\ sink = NoSink
  /\ js = NoJs

\* ------------------------------------------------------ the underlying source
\* The pull hook of the source behind the stream: the next item of the
\* native stream is enqueued; at its end the stream is closed or errored.
\* (A source whose end is "idle" never closes.)
pull ==
  /\ ~panicked
  /\ HostShouldPull(rs)
  /\ src.items # <<>> \/ src.end # "idle"
  /\ LET step == IF src.items # <<>> THEN HostEnqueue(rs, futs, Head(src.items))
                 ELSE IF src.end = "close" THEN HostClose(rs, futs)
                 ELSE HostError(rs, futs)
     IN  /\ rs' = step[1]
         /\ futs' = step[2]
  /\ src' = [src EXCEPT !.items = IF src.items # <<>> THEN Tail(src.items) ELSE <<>>]
  /\ calls' = <<>>
  /\ ret' = Ret("pull", 0, "", "")
  /\ UNCHANGED <<sink, js, pipe, tee, hooks, rd, stream, ws, wr, out, panicked>>

\* ------------------------------------------------- src/readable/mod.rs
\* (mutant) the host's error is ignored.
Propagate_ignored(ok) == "Ok"

\* `?` on the host's answer: an error is returned, not ignored.
Propagate(ok) == IF ok THEN "Ok" ELSE "Err"

\* ReadableStream::try_get_reader
try_get_reader ==
  /\ ~panicked
  /\ calls' = <<"getReader">>
  /\ IF Propagate(HostGetReaderOk(rs)) = "Ok"
     THEN /\ Fresh # {}
          /\ rs' = HostGetReader(rs, NewReader)
          /\ rd' = [rd EXCEPT ![NewReader] = [kind |-> "new", st |-> "live"]]
          /\ ret' = Ret("try_get_reader", NewReader, "Ok", "")
     ELSE /\ UNCHANGED <<rs, rd>>
          /\ ret' = Ret("try_get_reader", 0, "Err", "")
  /\ UNCHANGED <<sink, js, pipe, tee, hooks, src, futs, stream, ws, wr, out, panicked>>

\* ReadableStreamDefaultReader::read, up to its await: the host read is
\* issued and the future waits for the promise.
read_start(r) ==
  /\ ~panicked
  /\ Idle(r) /\ rd[r].st = "live"
  /\ Len(rs.reqs) < MaxReqs
  /\ LET hr == HostRead(rs, futs, r, r)
     IN  /\ rs' = hr[1]
         /\ futs' = hr[2]
  /\ calls' = <<"read">>
  /\ ret' = Ret("read", r, "Pending", "")
  /\ UNCHANGED <<sink, js, pipe, tee, hooks, src, rd, stream, ws, wr, out, panicked>>

\* (mutant) read does not look at is_done.
ReadResult_unchecked(f) ==
  IF f = "err" THEN Ret("read", 0, "Err", "") ELSE Ret("read", 0, "Ok", f)

\* What read returns for a settled promise.
ReadResult(f) ==
  IF f = "err" THEN Ret("read", 0, "Err", "")
  ELSE IF f = "done" THEN Ret("read", 0, "Ok", "None")
  ELSE Ret("read", 0, "Ok", f)

\* ReadableStreamDefaultReader::read, after its await.
read_ready(r) ==
  /\ ~panicked
  /\ Held(r) /\ Settled(futs[r])
  /\ ret' = [ReadResult(futs[r]) EXCEPT !.who = r]
  /\ futs' = [futs EXCEPT ![r] = "none"]
  /\ calls' = <<>>
  /\ UNCHANGED <<sink, js, pipe, tee, hooks, rs, src, rd, stream, ws, wr, out, panicked>>

\* The caller drops the future of read before it is ready (abortable, select).
read_abandon(r) ==
  /\ ~panicked
  /\ Held(r) /\ futs[r] # "none"
  /\ futs' = [futs EXCEPT ![r] = "none"]
  /\ rs' = [rs EXCEPT !.reqs = Orphan(rs.reqs, r)]
  /\ calls' = <<>>
  /\ ret' = Ret("read_abandon", r, "", "")
  /\ UNCHANGED <<sink, js, pipe, tee, hooks, src, rd, stream, ws, wr, out, panicked>>

\* (mutant) the host's refusal is swallowed.
release_lock_mut_swallowed(ok) == "Ok"

\* ReadableStreamDefaultReader::release_lock_mut: the host's refusal to
\* release is thrown, never returned.
release_lock_mut(ok) == IF ok THEN "Ok" ELSE "Throw"

\* ReadableStreamDefaultReader::release_lock(self): release_lock_mut, then
\* self goes out of scope and Drop calls release_lock_mut once more.
release_lock(r) ==
  /\ ~panicked
  /\ Idle(r) /\ rd[r].kind = "new"
  /\ IF release_lock_mut(HostReleaseOk(rs, r)) = "Ok"
     THEN /\ rs' = HostRelease(rs, r)
          /\ rd' = [rd EXCEPT ![r].st = "dropped"]
          /\ calls' = <<"releaseLock", "releaseLock">>
          /\ ret' = Ret("release_lock(self)", r, "Ok", "")
          /\ UNCHANGED panicked
     ELSE /\ panicked' = TRUE
          /\ calls' = <<"releaseLock">>
          /\ ret' = Ret("release_lock(self)", r, "Throw", "")
          /\ UNCHANGED <<rs, rd>>
  /\ UNCHANGED <<sink, js, pipe, tee, hooks, src, futs, stream, ws, wr, out>>

\* ReadableStreamDefaultReader::try_release_lock(self): on an error the
\* reader is handed back with it; on success self is dropped.
try_release_lock(r) ==
  /\ ~panicked
  /\ Idle(r) /\ rd[r].kind = "new"
  /\ IF Propagate(HostReleaseOk(rs, r)) = "Ok"
     THEN /\ rs' = HostRelease(rs, r)
          /\ rd' = [rd EXCEPT ![r].st = "dropped"]
          /\ calls' = <<"releaseLock", "releaseLock">>
          /\ ret' = Ret("try_release_lock", r, "Ok", "")
     ELSE /\ calls' = <<"releaseLock">>
          /\ ret' = Ret("try_release_lock", r, "Err", "reader")
          /\ UNCHANGED <<rs, rd>>
  /\ UNCHANGED <<sink, js, pipe, tee, hooks, src, futs, stream, ws, wr, out, panicked>>

\* Drop for ReadableStreamDefaultReader: release_lock_mut.
drop_reader(r) ==
  /\ ~panicked
  /\ Idle(r) /\ rd[r].kind = "new"
  /\ calls' = <<"releaseLock">>
  /\ IF release_lock_mut(HostReleaseOk(rs, r)) = "Ok"
     THEN /\ rs' = HostRelease(rs, r)
          /\ rd' = [rd EXCEPT ![r].st = "dropped"]
          /\ ret' = Ret("drop_reader", r, "Ok", "")
          /\ UNCHANGED panicked
     ELSE /\ panicked' = TRUE
          /\ ret' = Ret("drop_reader", r, "Throw", "")
          /\ UNCHANGED <<rs, rd>>
  /\ UNCHANGED <<sink, js, pipe, tee, hooks, src, futs, stream, ws, wr, out>>

\* ReadableStreamDefaultReader::into_stream -> IntoStream::new
into_stream(r) ==
  /\ ~panicked
  /\ Idle(r) /\ rd[r].kind = "new"
  /\ stream.st = "absent"
  /\ stream' = [st |-> "live", reader |-> r]
  /\ calls' = <<>>
  /\ ret' = Ret("into_stream", r, "Ok", "")
  /\ UNCHANGED <<sink, js, pipe, tee, hooks, rs, src, rd, futs, ws, wr, out, panicked>>

\* ReadableStream::try_into_stream: a new reader, wrapped at once.
try_into_stream ==
  /\ ~panicked
  /\ stream.st = "absent"
  /\ calls' = <<"getReader">>
  /\ IF Propagate(HostGetReaderOk(rs)) = "Ok"
     THEN /\ Fresh # {}
          /\ rs' = HostGetReader(rs, NewReader)
          /\ rd' = [rd EXCEPT ![NewReader] = [kind |-> "new", st |-> "live"]]
          /\ stream' = [st |-> "live", reader |-> NewReader]
          /\ ret' = Ret("try_into_stream", NewReader, "Ok", "")
     ELSE /\ UNCHANGED <<rs, rd, stream>>
          /\ ret' = Ret("try_into_stream", 0, "Err", "stream")
  /\ UNCHANGED <<sink, js, pipe, tee, hooks, src, futs, ws, wr, out, panicked>>

\* ------------------------------------------- src/readable/into_stream.rs
\* (mutant) is_terminated looks at the cached future only.
is_terminated_no_future == fut = "none"

\* IntoStream::is_terminated
is_terminated == reader = 0 /\ fut = "none"

\* (mutant) a read is started on every poll.
NoPendingRead_always == TRUE

\* poll_next starts a read only when none is cached.
NoPendingRead == fut = "none"

\* (mutant) the reader survives a done result.
KeepsReader_after_done(res) == res # "err"

\* (mutant) the reader survives an error.
KeepsReader_after_err(res) == res # "done"

\* poll_next keeps the reader only after a chunk: done and an error drop it.
KeepsReader(res) == res \notin {"done", "err"}

\* (mutant) the completed future stays cached.
Cleared_stale == futs[StreamFut]

\* What poll_next leaves in fut once the read has completed.
Cleared == "none"

\* The item a completed read yields.
Item(res) == IF res = "done" THEN "None" ELSE IF res = "err" THEN "Some(Err)" ELSE res

\* IntoStream::poll_next
poll_next ==
  /\ ~panicked
  /\ stream.st = "live"
  /\ IF NoPendingRead /\ reader = 0
     THEN \* the reader was already dropped
          /\ ret' = Ret("poll_next", 0, "Ready", "None")
          /\ calls' = <<>>
          /\ UNCHANGED <<rs, rd, futs, stream, out, panicked>>
     ELSE IF NoPendingRead
     THEN \* read a chunk and store its future; its first poll is pending
          /\ Len(rs.reqs) < MaxReqs
          /\ LET hr == HostRead(rs, futs, reader, StreamFut)
             IN  /\ rs' = hr[1]
                 /\ futs' = hr[2]
          /\ calls' = <<"read">>
          /\ ret' = Ret("poll_next", reader, "Pending", "")
          /\ UNCHANGED <<rd, stream, out, panicked>>
     ELSE IF ~Settled(fut)
     THEN \* the cached future is polled again
          /\ ret' = Ret("poll_next", reader, "Pending", "")
          /\ calls' = <<>>
          /\ UNCHANGED <<rs, rd, futs, stream, out, panicked>>
     ELSE \* read completed
          /\ futs' = [futs EXCEPT ![StreamFut] = Cleared]
          /\ IF KeepsReader(fut)
             THEN /\ calls' = <<>>
                  /\ UNCHANGED <<rs, rd, stream, panicked>>
             ELSE \* self.reader = None drops the reader
                  /\ calls' = IF reader # 0 THEN <<"releaseLock">> ELSE <<>>
                  /\ IF reader = 0 \/ release_lock_mut(HostReleaseOk(rs, reader)) = "Ok"
                     THEN /\ rs' = HostRelease(rs, reader)
                          /\ rd' = [q \in Readers |->
                                      IF q = reader THEN [rd[q] EXCEPT !.st = "dropped"]
                                      ELSE rd[q]]
                          /\ stream' = [stream EXCEPT !.reader = 0]
                          /\ UNCHANGED panicked
                     ELSE /\ panicked' = TRUE
                          /\ UNCHANGED <<rs, rd, stream>>
          /\ ret' = Ret("poll_next", reader, "Ready", Item(fut))
          /\ out' = IF fut = "done" THEN out ELSE Append(out, Item(fut))
  /\ UNCHANGED <<sink, js, pipe, tee, hooks, src, ws, wr>>

\* Dropping the IntoStream drops its fields in order: the reader (which
\* releases its lock, or throws), then the cached future.
drop_stream ==
  /\ ~panicked
  /\ stream.st = "live"
  /\ calls' = IF reader # 0 THEN <<"releaseLock">> ELSE <<>>
  /\ IF reader = 0 \/ release_lock_mut(HostReleaseOk(rs, reader)) = "Ok"
     THEN /\ rs' = HostRelease(rs, reader)
          /\ rd' = [q \in Readers |->
                      IF q = reader THEN [rd[q] EXCEPT !.st = "dropped"] ELSE rd[q]]
          /\ stream' = [st |-> "dropped", reader |-> 0]
          /\ futs' = [futs EXCEPT ![StreamFut] = "none"]
          /\ ret' = Ret("drop_stream", reader, "Ok", "")
          /\ UNCHANGED panicked
     ELSE /\ panicked' = TRUE
          /\ ret' = Ret("drop_stream", reader, "Throw", "")
          /\ UNCHANGED <<rs, rd, stream, futs>>
  /\ UNCHANGED <<sink, js, pipe, tee, hooks, src, ws, wr, out>>

\* ------------------------------------------- src/readable_stream/mod.rs
\* ReadableStream::get_reader: the raw reader is kept in an Option.
get_reader ==
  /\ ~panicked
  /\ calls' = <<"getReader">>
  /\ IF Propagate(HostGetReaderOk(rs)) = "Ok"
     THEN /\ Fresh # {}
          /\ rs' = HostGetReader(rs, NewReader)
          /\ rd' = [rd EXCEPT ![NewReader] = [kind |-> "opt", st |-> "live"]]
          /\ ret' = Ret("get_reader", NewReader, "Ok", "")
     ELSE /\ UNCHANGED <<rs, rd>>
          /\ ret' = Ret("get_reader", 0, "Err", "")
  /\ UNCHANGED <<sink, js, pipe, tee, hooks, src, futs, stream, ws, wr, out, panicked>>

\* (mutant) release_lock forgets to clear the Option.
Taken_kept == "live"

\* release_lock of the Option-based reader and writer: what the Option
\* holds after the host has released the lock (inner.take()).
Taken == "released"

\* (mutant) the test of the Option is inverted.
HasInner_inverted(st) == st # "live"

\* Whether release_lock has a raw reader / writer to release.
HasInner(st) == st = "live"

\* ReadableStreamDefaultReader::release_lock(&mut self)
release_lock_opt(r) ==
  /\ ~panicked
  /\ Idle(r) /\ rd[r].kind = "opt"
  /\ IF HasInner(rd[r].st)
     THEN /\ calls' = <<"releaseLock">>
          /\ IF Propagate(HostReleaseOk(rs, r)) = "Ok"
             THEN /\ rs' = HostRelease(rs, r)
                  /\ rd' = [rd EXCEPT ![r].st = Taken]
                  /\ ret' = Ret("reader.release_lock", r, "Ok", "")
             ELSE /\ ret' = Ret("reader.release_lock", r, "Err", "")
                  /\ UNCHANGED <<rs, rd>>
     ELSE /\ calls' = <<>>
          /\ ret' = Ret("reader.release_lock", r, "Ok", "")
          /\ UNCHANGED <<rs, rd>>
  /\ UNCHANGED <<sink, js, pipe, tee, hooks, src, futs, stream, ws, wr, out, panicked>>

\* ReadableStreamDefaultReader::read after release_lock: as_raw unwraps the
\* cleared Option and panics before the host is reached.
read_released(r) ==
  /\ ~panicked
  /\ Idle(r) /\ rd[r].kind = "opt" /\ ~HasInner(rd[r].st)
  /\ panicked' = TRUE
  /\ calls' = <<>>
  /\ ret' = Ret("read", r, "Panic", "")
  /\ UNCHANGED <<sink, js, pipe, tee, hooks, rs, src, rd, futs, stream, ws, wr, out>>

\* Drop: self.release_lock().unwrap()
Unwrap(res) == IF res = "Ok" THEN "Ok" ELSE "Panic"

\* Drop for the Option-based ReadableStreamDefaultReader
drop_reader_opt(r) ==
  /\ ~panicked
  /\ Idle(r) /\ rd[r].kind = "opt"
  /\ calls' = IF HasInner(rd[r].st) THEN <<"releaseLock">> ELSE <<>>
  /\ IF ~HasInner(rd[r].st) \/ Unwrap(Propagate(HostReleaseOk(rs, r))) = "Ok"
     THEN /\ rs' = IF HasInner(rd[r].st) THEN HostRelease(rs, r) ELSE rs
          /\ rd' = [rd EXCEPT ![r].st = "dropped"]
          /\ ret' = Ret("drop_reader_opt", r, "Ok", "")
          /\ UNCHANGED panicked
     ELSE /\ panicked' = TRUE
          /\ ret' = Ret("drop_reader_opt", r, "Panic", "")
          /\ UNCHANGED <<rs, rd>>
  /\ UNCHANGED <<sink, js, pipe, tee, hooks, src, futs, stream, ws, wr, out>>

\* The source's start hook as HelloWorldSource writes it: every chunk is
\* enqueued through the controller, then the controller is closed.
RECURSIVE EnqueueAll(_, _, _)
EnqueueAll(s, f, l) ==
  IF l = <<>> THEN <<s, f>>
  ELSE LET e == HostEnqueue(s, f, Head(l)) IN EnqueueAll(e[1], e[2], Tail(l))

\* The start closure of JsUnderlyingSource: the host calls it once, on a
\* turn of its job queue after the stream was made.
start ==
  /\ ~panicked
  /\ hooks.start = 0
  /\ LET e == EnqueueAll(rs, futs, src.items)
         c == HostClose(e[1], e[2])
     IN  /\ rs' = c[1]
         /\ futs' = c[2]
  /\ src' = [src EXCEPT !.items = <<>>]
  /\ hooks' = [hooks EXCEPT !.start = 1]
  /\ calls' = <<>>
  /\ ret' = Ret("start", 0, "Ok", "")
  /\ UNCHANGED <<sink, js, pipe, tee, rd, stream, ws, wr, out, panicked>>

\* The hooks of a backing source, and those of a transformer.
SourceHooks == {"start", "pull", "cancel"}
TransformerHooks == {"start", "transform", "flush"}

\* Closure::wrap / forget: a closure the host can still call.
Callable(c) == c \in {"alive", "leaked"}

\* RefCell::borrow_mut on the shared backing object: it succeeds only when
\* no other hook's future holds its borrow; otherwise it panics.
BorrowMut(b) == b = "none"

\* The host calls the closure of hook h, and the future it makes is polled:
\* the backing object is borrowed until the hook's future completes (the
\* hook is an async fn and may suspend at an await), or the borrow panics.
\* Calling a closure that was dropped throws in the host instead.
CallHook(j, h) ==
  IF ~Callable(j.closures) THEN [j EXCEPT !.deadcall = TRUE]
  ELSE IF BorrowMut(j.borrow) THEN [j EXCEPT !.borrow = h, !.inflight = j.inflight \cup {h}]
  ELSE [j EXCEPT !.borrow = "conflict"]

\* ReadableStream::new(source): JsUnderlyingSource::new wraps the three
\* closures; the host's constructor calls the start closure at once.
new ==
  /\ ~panicked
  /\ js.kind = "none"
  /\ js' = CallHook([NoJs EXCEPT !.kind = "source", !.wrapper = "live", !.closures = "alive"],
                    "start")
  /\ calls' = <<"new">>
  /\ ret' = Ret("new", 0, "Ok", "")
  /\ UNCHANGED <<sink, pipe, tee, hooks, rs, src, rd, futs, stream, ws, wr, out, panicked>>

\* The host calls the pull closure: only once start has completed, never
\* while an earlier pull has not resolved, and only when the stream wants
\* a chunk. A call of a dropped closure throws, which errors the stream.
hook_pull ==
  /\ ~panicked
  /\ js.kind = "source" /\ hooks.start = 1 /\ "pull" \notin js.inflight
  /\ HostShouldPull(rs)
  /\ src.items # <<>> \/ src.end # "idle"
  /\ js' = CallHook(js, "pull")
  /\ IF Callable(js.closures)
     THEN /\ panicked' = (js'.borrow = "conflict")
          /\ UNCHANGED <<rs, futs>>
     ELSE /\ rs' = HostError(rs, futs)[1]
          /\ futs' = HostError(rs, futs)[2]
          /\ UNCHANGED panicked
  /\ calls' = <<>>
  /\ ret' = Ret("hook", 0, IF panicked' THEN "Panic" ELSE "", "pull")
  /\ UNCHANGED <<sink, pipe, tee, hooks, src, rd, stream, ws, wr, out>>

\* ReadableStream::cancel / cancel_with_reason (readable_stream module),
\* up to its await: the host rejects on a locked stream; on a readable one
\* it closes the stream and calls the cancel closure at once, whatever
\* other hook is still running.
cancel_opt ==
  /\ ~panicked
  /\ js.kind = "source" /\ js.wrapper = "live" /\ "cancel" \notin js.inflight
  /\ calls' = <<"cancel">>
  /\ IF rs.locked # 0
     THEN /\ ret' = Ret("cancel", 0, "Err", TypeError)
          /\ UNCHANGED <<rs, futs, js, panicked>>
     ELSE IF rs.state # "readable"
     THEN /\ ret' = Ret("cancel", 0, IF rs.state = "closed" THEN "Ok" ELSE "Err", "")
          /\ UNCHANGED <<rs, futs, js, panicked>>
     ELSE /\ rs' = HostCancel(rs, futs)[1]
          /\ futs' = HostCancel(rs, futs)[2]
          /\ js' = CallHook(js, "cancel")
          /\ panicked' = (js'.borrow = "conflict")
          /\ ret' = Ret("cancel", 0, IF panicked' THEN "Panic" ELSE "Pending", "")
  /\ UNCHANGED <<sink, pipe, tee, hooks, src, rd, stream, ws, wr, out>>

\* The future of hook h completes: the borrow of the backing object ends
\* and the hook's promise resolves. A pull has enqueued the source's next
\* chunk, or closed or errored the stream at the source's end, unless the
\* stream was closed or errored meanwhile.
hook_done(h) ==
  /\ ~panicked
  /\ js.kind = "source" /\ js.borrow = h /\ h \in SourceHooks
  /\ js' = [js EXCEPT !.borrow = "none", !.inflight = js.inflight \ {h}]
  /\ IF h = "pull" /\ rs.state = "readable" /\ ~rs.closeReq
     THEN /\ LET step == IF src.items # <<>> THEN HostEnqueue(rs, futs, Head(src.items))
                         ELSE IF src.end = "close" THEN HostClose(rs, futs)
                         ELSE HostError(rs, futs)
             IN  /\ rs' = step[1]
                 /\ futs' = step[2]
          /\ src' = [src EXCEPT !.items = IF src.items # <<>> THEN Tail(src.items) ELSE <<>>]
     ELSE UNCHANGED <<rs, futs, src>>
  /\ hooks' = IF h = "start" THEN [hooks EXCEPT !.start = 1]
              ELSE IF h = "cancel" THEN [hooks EXCEPT !.cancel = Append(hooks.cancel, "undefined")]
              ELSE hooks
  /\ calls' = <<>>
  /\ ret' = Ret("hook_done", 0, "", h)
  /\ UNCHANGED <<sink, pipe, tee, rd, stream, ws, wr, out, panicked>>

\* (mutant) forget drops the closures.
Forgotten_dropped == "released"

\* Closure::forget on each closure: they are leaked, alive for ever.
Forgotten == "leaked"

\* The closures of a wrapper that is dropped are dropped with it.
Released == "released"

\* ReadableStream::forget: the source's closures are leaked and the raw
\* stream is returned.
forget ==
  /\ ~panicked
  /\ js.kind = "source" /\ js.wrapper = "live"
  /\ js' = [js EXCEPT !.wrapper = "forgotten", !.closures = Forgotten]
  /\ calls' = <<>>
  /\ ret' = Ret("forget", 0, "Ok", "raw")
  /\ UNCHANGED <<sink, pipe, tee, hooks, rs, src, rd, futs, stream, ws, wr, out, panicked>>

\* The ReadableStream is dropped: its JsUnderlyingSource and the three
\* closures go with it. (The raw stream lives on in the host, and in any
\* reader made from it.)
drop_readable ==
  /\ ~panicked
  /\ js.kind = "source" /\ js.wrapper = "live"
  /\ js' = [js EXCEPT !.wrapper = "dropped", !.closures = Released]
  /\ calls' = <<>>
  /\ ret' = Ret("drop_readable", 0, "Ok", "")
  /\ UNCHANGED <<sink, pipe, tee, hooks, rs, src, rd, futs, stream, ws, wr, out, panicked>>

\* (mutant) closed reports a closed stream as an error.
ClosedResult_err(p) == IF p = "pending" THEN "Pending" ELSE "Err"

\* closed(): the JsFuture of the reader's closed promise, `?` on its result.
ClosedResult(p) == IF p = "ok" THEN "Ok" ELSE IF p = "err" THEN "Err" ELSE "Pending"

\* ReadableStreamDefaultReader::closed, polled once: the promise is the
\* host's, no state of the wrapper changes.
closed(r) ==
  /\ ~panicked
  /\ Idle(r) /\ rd[r].st = "live"
  /\ calls' = <<"closed">>
  /\ ret' = Ret("closed", r, ClosedResult(HostClosed(rs, r)), "")
  /\ UNCHANGED <<sink, js, pipe, tee, hooks, rs, src, rd, futs, stream, ws, wr, out, panicked>>

\* ---------------------------------------------------- src/writable/mod.rs
FreshW == {w \in Writers : wr[w].st = "unborn"}
NewWriter == CHOOSE w \in FreshW : \A q \in FreshW : w <= q

\* A writer the caller holds, not borrowed by a write() future and not
\* moved into the IntoSink.
HeldW(w) ==
  /\ wr[w].st \in {"live", "released"}
  /\ ~(sink.st = "live" /\ sink.writer = w)
IdleW(w) == HeldW(w) /\ wr[w].fut = "none"

\* WritableStream::get_writer
get_writer ==
  /\ ~panicked
  /\ calls' = <<"getWriter">>
  /\ IF Propagate(HostGetWriterOk(ws)) = "Ok"
     THEN /\ FreshW # {}
          /\ ws' = HostGetWriter(ws, NewWriter)
          /\ wr' = [wr EXCEPT ![NewWriter] = [st |-> "live", fut |-> "none"]]
          /\ ret' = Ret("get_writer", NewWriter, "Ok", "")
     ELSE /\ UNCHANGED <<ws, wr>>
          /\ ret' = Ret("get_writer", 0, "Err", "")
  /\ UNCHANGED <<sink, js, pipe, tee, hooks, rs, src, rd, futs, stream, out, panicked>>

\* WritableStreamDefaultWriter::write, up to its await.
write_start(w) ==
  /\ ~panicked
  /\ IdleW(w) /\ wr[w].st = "live"
  /\ Len(ws.reqs) < MaxWrites
  /\ LET hw == HostWrite(ws, wr, w)
     IN  /\ ws' = hw[1]
         /\ wr' = hw[2]
  /\ calls' = <<"write">>
  /\ ret' = Ret("write", w, "Pending", "")
  /\ UNCHANGED <<sink, js, pipe, tee, hooks, rs, src, rd, futs, stream, out, panicked>>

\* (mutant) the await's error is not propagated.
WriterResult_ok(f) == "Ok"

\* JsFuture::from(promise).await?; Ok(()): Err for a rejected promise, Ok
\* for a fulfilled one.
WriterResult(f) == IF f \in {"ok", "closed", "aborted"} THEN "Ok" ELSE "Err"

\* WritableStreamDefaultWriter::write, after its await.
write_ready(w) ==
  /\ ~panicked
  /\ HeldW(w) /\ wr[w].fut \in {"ok", "err"}
  /\ ret' = Ret("write", w, WriterResult(wr[w].fut), "")
  /\ wr' = [wr EXCEPT ![w].fut = "none"]
  /\ calls' = <<>>
  /\ UNCHANGED <<sink, js, pipe, tee, hooks, rs, src, rd, futs, stream, ws, out, panicked>>

\* The caller drops the future of write before it is ready.
write_abandon(w) ==
  /\ ~panicked
  /\ HeldW(w) /\ wr[w].fut # "none"
  /\ wr' = [wr EXCEPT ![w].fut = "none"]
  /\ ws' = [ws EXCEPT !.reqs = Orphan(ws.reqs, w)]
  /\ calls' = <<>>
  /\ ret' = Ret("write_abandon", w, "", "")
  /\ UNCHANGED <<sink, js, pipe, tee, hooks, rs, src, rd, futs, stream, out, panicked>>

\* The underlying sink settles the oldest write in flight.
sink_settle ==
  /\ ~panicked
  /\ ws.reqs # <<>>
  /\ \E ok \in BOOLEAN :
       LET hs == IF ok THEN HostWriteOk(ws, wr) ELSE HostWriteErr(ws, wr)
       IN  /\ ws' = hs[1]
           /\ wr' = hs[2]
  /\ calls' = <<>>
  /\ ret' = Ret("sink", 0, "", "")
  /\ UNCHANGED <<sink, js, pipe, tee, hooks, rs, src, rd, futs, stream, out, panicked>>

\* WritableStreamDefaultWriter::release_lock(&mut self)
release_lock_w(w) ==
  /\ ~panicked
  /\ IdleW(w)
  /\ IF HasInner(wr[w].st)
     THEN /\ calls' = <<"releaseLock">>
          /\ \E refuse \in BOOLEAN :
               IF Propagate(HostWriterReleaseOk(ws, w, refuse)) = "Ok"
               THEN /\ ws' = HostWriterRelease(ws, w, refuse)
                    /\ wr' = [wr EXCEPT ![w].st = Taken]
                    /\ ret' = Ret("writer.release_lock", w, "Ok", "")
               ELSE /\ ret' = Ret("writer.release_lock", w, "Err", "")
                    /\ UNCHANGED <<ws, wr>>
     ELSE /\ calls' = <<>>
          /\ ret' = Ret("writer.release_lock", w, "Ok", "")
          /\ UNCHANGED <<ws, wr>>
  /\ UNCHANGED <<sink, js, pipe, tee, hooks, rs, src, rd, futs, stream, out, panicked>>

\* Drop for WritableStreamDefaultWriter: self.release_lock().unwrap()
drop_writer(w) ==
  /\ ~panicked
  /\ IdleW(w)
  /\ calls' = IF HasInner(wr[w].st) THEN <<"releaseLock">> ELSE <<>>
  /\ \E refuse \in BOOLEAN :
       IF ~HasInner(wr[w].st) \/ Unwrap(Propagate(HostWriterReleaseOk(ws, w, refuse))) = "Ok"
       THEN /\ ws' = IF HasInner(wr[w].st) THEN HostWriterRelease(ws, w, refuse) ELSE ws
            /\ wr' = [wr EXCEPT ![w].st = "dropped"]
            /\ ret' = Ret("drop_writer", w, "Ok", "")
            /\ UNCHANGED panicked
       ELSE /\ panicked' = TRUE
            /\ ret' = Ret("drop_writer", w, "Panic", "")
            /\ UNCHANGED <<ws, wr>>
  /\ UNCHANGED <<sink, js, pipe, tee, hooks, rs, src, rd, futs, stream, out>>

\* WritableStreamDefaultWriter::close, up to its await: the host is asked
\* to close; the sink's close hook runs later, after the writes in flight.
close_start(w) ==
  /\ ~panicked
  /\ IdleW(w) /\ wr[w].st = "live"
  /\ IF ws.locked = w /\ ws.state = "writable"
     THEN /\ ws' = [ws EXCEPT !.state = "closing"]
          /\ wr' = [wr EXCEPT ![w].fut = "closing"]
     ELSE /\ wr' = [wr EXCEPT ![w].fut = "close_err"]
          /\ UNCHANGED ws
  /\ calls' = <<"close">>
  /\ ret' = Ret("close", w, "Pending", "")
  /\ UNCHANGED <<sink, js, pipe, tee, hooks, rs, src, rd, futs, stream, out, panicked>>

\* WritableStreamDefaultWriter::close, after its await.
close_ready(w) ==
  /\ ~panicked
  /\ HeldW(w) /\ wr[w].fut \in {"closed", "close_err"}
  /\ ret' = Ret("close", w, WriterResult(wr[w].fut), "")
  /\ wr' = [wr EXCEPT ![w].fut = "none"]
  /\ calls' = <<>>
  /\ UNCHANGED <<sink, js, pipe, tee, hooks, rs, src, rd, futs, stream, ws, out, panicked>>

\* The underlying sink's close hook, called for a close a writer asked for.
sink_close ==
  /\ ~panicked
  /\ ws.state = "closing" /\ ws.reqs = <<>> /\ pipe.st \in {"none", "done"}
  /\ \E ok \in BOOLEAN :
       /\ ws' = [ws EXCEPT !.state = IF ok THEN "closed" ELSE "errored"]
       /\ wr' = [w \in Writers |->
                   IF wr[w].fut = "closing"
                   THEN [wr[w] EXCEPT !.fut = IF ok THEN "closed" ELSE "close_err"]
                   ELSE wr[w]]
  /\ hooks' = [hooks EXCEPT !.close = 1]
  /\ calls' = <<>>
  /\ ret' = Ret("sink_close", 0, "", "")
  /\ UNCHANGED <<sink, js, pipe, tee, rs, src, rd, futs, stream, out, panicked>>

\* WritableStreamDefaultWriter::abort, up to its await. The host resolves
\* at once for a stream already closed or errored; else the stream stops
\* taking writes, what is in flight rejects, and the sink's abort hook runs.
abort_start(w) ==
  /\ ~panicked
  /\ IdleW(w) /\ wr[w].st = "live"
  /\ IF ws.locked # w
     THEN /\ wr' = [wr EXCEPT ![w].fut = "abort_err"]
          /\ UNCHANGED ws
     ELSE IF ws.state \in {"closed", "errored"}
     THEN /\ wr' = [wr EXCEPT ![w].fut = "aborted"]
          /\ UNCHANGED ws
     ELSE IF ws.state = "aborting"
     THEN /\ wr' = [wr EXCEPT ![w].fut = "aborting"]
          /\ UNCHANGED ws
     ELSE /\ ws' = [ws EXCEPT !.state = "aborting", !.reqs = <<>>]
          /\ wr' = [x \in Writers |->
                      IF x = w THEN [wr[x] EXCEPT !.fut = "aborting"]
                      ELSE IF x \in Range(ws.reqs) THEN [wr[x] EXCEPT !.fut = "err"]
                      ELSE IF wr[x].fut = "closing" THEN [wr[x] EXCEPT !.fut = "close_err"]
                      ELSE wr[x]]
  /\ calls' = <<"abort">>
  /\ ret' = Ret("abort", w, "Pending", "")
  /\ UNCHANGED <<sink, js, pipe, tee, hooks, rs, src, rd, futs, stream, out, panicked>>

\* WritableStreamDefaultWriter::abort, after its await.
abort_ready(w) ==
  /\ ~panicked
  /\ HeldW(w) /\ wr[w].fut \in {"aborted", "abort_err"}
  /\ ret' = Ret("abort", w, WriterResult(wr[w].fut), "")
  /\ wr' = [wr EXCEPT ![w].fut = "none"]
  /\ calls' = <<>>
  /\ UNCHANGED <<sink, js, pipe, tee, hooks, rs, src, rd, futs, stream, ws, out, panicked>>

\* The underlying sink's abort hook, called for an abort a writer asked
\* for: the stream is errored, and the abort fails if the hook does.
sink_abort ==
  /\ ~panicked
  /\ ws.state = "aborting"
  /\ \E ok \in BOOLEAN :
       wr' = [w \in Writers |->
                IF wr[w].fut = "aborting"
                THEN [wr[w] EXCEPT !.fut = IF ok THEN "aborted" ELSE "abort_err"]
                ELSE wr[w]]
  /\ ws' = [ws EXCEPT !.state = "errored"]
  /\ hooks' = [hooks EXCEPT !.abort = Append(hooks.abort, "undefined")]
  /\ calls' = <<>>
  /\ ret' = Ret("sink_abort", 0, "", "")
  /\ UNCHANGED <<sink, js, pipe, tee, rs, src, rd, futs, stream, out, panicked>>

\* ----------------------------------------- a capability after its release
\* (mutant) as_raw gives a handle although the Option was cleared.
as_raw_unchecked(st) == "raw"

\* as_raw: self.inner.as_ref().unwrap() / self.raw.as_ref().unwrap(): the
\* raw reader or writer, or a panic when release_lock has taken it.
as_raw(st) == IF HasInner(st) THEN "raw" ELSE "panic"

\* The methods of the Option-based reader that go through as_raw.
ReaderOps == {"read", "reader.cancel", "reader.closed"}

\* The methods of the Option-based writer that go through as_raw.
WriterOps == {"write", "close", "abort", "writer.closed", "writer.ready",
              "writer.desired_size"}

\* A method of a reader whose release_lock has succeeded: as_raw panics
\* before the host is called. (Were a handle left, the host would be called
\* and would refuse the released reader.)
reader_released(r, op) ==
  /\ ~panicked
  /\ Idle(r) /\ rd[r].kind = "opt" /\ rd[r].st = Taken
  /\ op \in ReaderOps
  /\ IF as_raw(rd[r].st) = "panic"
     THEN /\ panicked' = TRUE
          /\ calls' = <<>>
          /\ ret' = Ret(op, r, "Panic", "")
     ELSE /\ calls' = <<op>>
          /\ ret' = Ret(op, r, "Err", TypeError)
          /\ UNCHANGED panicked
  /\ UNCHANGED <<sink, js, pipe, tee, hooks, rs, src, rd, futs, stream, ws, wr, out>>

\* A method of a writer whose release_lock has succeeded: the same.
writer_released(w, op) ==
  /\ ~panicked
  /\ IdleW(w) /\ wr[w].st = Taken
  /\ op \in WriterOps
  /\ IF as_raw(wr[w].st) = "panic"
     THEN /\ panicked' = TRUE
          /\ calls' = <<>>
          /\ ret' = Ret(op, w, "Panic", "")
     ELSE /\ calls' = <<op>>
          /\ ret' = Ret(op, w, "Err", TypeError)
          /\ UNCHANGED panicked
  /\ UNCHANGED <<sink, js, pipe, tee, hooks, rs, src, rd, futs, stream, ws, wr, out>>

\* ------------------------------------------- src/writable/into_sink.rs
\* WritableStreamDefaultWriter::into_sink: the writer moves into the sink.
into_sink(w) ==
  /\ ~panicked
  /\ IdleW(w) /\ wr[w].st = "live" /\ sink.st = "absent"
  /\ sink' = [NoSink EXCEPT !.st = "live", !.writer = w]
  /\ calls' = <<>>
  /\ ret' = Ret("into_sink", w, "Ok", "")
  /\ UNCHANGED <<js, pipe, tee, hooks, rs, src, rd, futs, stream, ws, wr, out, panicked>>

\* The sink's pending-write cache (the future of its last host call).
cache == IF sink.writer = 0 THEN "none" ELSE wr[sink.writer].fut

\* (mutant) a write is issued whatever the cache holds.
NoPendingWrite_always == TRUE

\* A new write is issued only when no operation is cached.
NoPendingWrite == cache = "none"

\* The sink drops its writer, whose Drop releases the lock.
SinkDropsWriter(s, f) ==
  <<HostWriterRelease(s, sink.writer, FALSE),
    [f EXCEPT ![sink.writer] = [st |-> "dropped", fut |-> "none"]]>>

\* The sink polls its cached write: pending while the host has not
\* settled it; then the cache is cleared, and on an error the writer is
\* dropped.
PollCached(op) ==
  IF cache \in {"pending", "closing"}
  THEN /\ ret' = Ret(op, sink.writer, "Pending", "")
       /\ UNCHANGED <<sink, ws, wr>>
  ELSE IF cache = "ok"
  THEN /\ ret' = Ret(op, sink.writer, "Ok", "")
       /\ wr' = [wr EXCEPT ![sink.writer].fut = "none"]
       /\ UNCHANGED <<sink, ws>>
  ELSE /\ ret' = Ret(op, sink.writer, "Err", "")
       /\ ws' = SinkDropsWriter(ws, wr)[1]
       /\ wr' = SinkDropsWriter(ws, wr)[2]
       /\ sink' = [sink EXCEPT !.writer = 0]

\* Sink::poll_ready followed, when it is ready, by Sink::start_send(c):
\* one host write, cached. Without a writer the sink reports an error.
\* (Nothing is sent once poll_close has been called.)
send(c) ==
  /\ ~panicked
  /\ sink.st = "live" /\ Len(sink.sent) < MaxLen
  /\ cache \notin {"closing", "closed", "close_err"}
  /\ Len(ws.reqs) < MaxWrites
  /\ IF sink.writer = 0
     THEN /\ ret' = Ret("send", 0, "Err", "")
          /\ calls' = <<>>
          /\ UNCHANGED <<sink, ws, wr>>
     ELSE IF NoPendingWrite
     THEN /\ LET hw == HostWrite(ws, wr, sink.writer)
             IN  /\ ws' = hw[1]
                 /\ wr' = hw[2]
          /\ sink' = [sink EXCEPT !.sent = Append(sink.sent, c)]
          /\ calls' = <<"write">>
          /\ ret' = Ret("send", sink.writer, "Ok", "")
     ELSE /\ calls' = <<>>
          /\ PollCached("send")
  /\ UNCHANGED <<js, pipe, tee, hooks, rs, src, rd, futs, stream, out, panicked>>

\* Sink::poll_flush: ready when nothing is cached, else the cached write
\* is polled.
poll_flush ==
  /\ ~panicked
  /\ sink.st = "live"
  /\ calls' = <<>>
  /\ IF cache = "none"
     THEN /\ ret' = Ret("poll_flush", sink.writer, "Ok", "")
          /\ UNCHANGED <<sink, ws, wr>>
     ELSE PollCached("poll_flush")
  /\ UNCHANGED <<js, pipe, tee, hooks, rs, src, rd, futs, stream, out, panicked>>

\* Sink::poll_close: a cached write is waited for first; then one host
\* close is issued and cached; when it settles the writer is dropped.
poll_close ==
  /\ ~panicked
  /\ sink.st = "live"
  /\ IF sink.writer = 0
     THEN /\ ret' = Ret("poll_close", 0, "Ok", "")
          /\ calls' = <<>>
          /\ UNCHANGED <<sink, ws, wr>>
     ELSE IF cache \in {"none", "ok"}
     THEN /\ IF ws.state = "writable"
             THEN /\ ws' = [ws EXCEPT !.state = "closing"]
                  /\ wr' = [wr EXCEPT ![sink.writer].fut = "closing"]
             ELSE /\ wr' = [wr EXCEPT ![sink.writer].fut = "close_err"]
                  /\ UNCHANGED ws
          /\ calls' = <<"close">>
          /\ ret' = Ret("poll_close", sink.writer, "Pending", "")
          /\ UNCHANGED sink
     ELSE IF cache \in {"closing", "closed", "close_err"}
     THEN /\ calls' = <<>>
          /\ IF cache = "closing"
             THEN /\ ret' = Ret("poll_close", sink.writer, "Pending", "")
                  /\ UNCHANGED <<sink, ws, wr>>
             ELSE /\ ret' = Ret("poll_close", sink.writer, WriterResult(cache), "")
                  /\ ws' = SinkDropsWriter(ws, wr)[1]
                  /\ wr' = SinkDropsWriter(ws, wr)[2]
                  /\ sink' = [sink EXCEPT !.writer = 0]
     ELSE /\ calls' = <<>>
          /\ PollCached("poll_close")
  /\ UNCHANGED <<js, pipe, tee, hooks, rs, src, rd, futs, stream, out, panicked>>

\* The IntoSink is dropped, and its writer with it: the lock is released,
\* which the host may refuse while a write is in flight.
drop_sink ==
  /\ ~panicked
  /\ sink.st = "live"
  /\ calls' = IF sink.writer # 0 THEN <<"releaseLock">> ELSE <<>>
  /\ \E refuse \in BOOLEAN :
       IF sink.writer = 0
          \/ Unwrap(Propagate(HostWriterReleaseOk(ws, sink.writer, refuse))) = "Ok"
       THEN /\ ws' = IF sink.writer # 0 THEN HostWriterRelease(ws, sink.writer, refuse) ELSE ws
            /\ wr' = IF sink.writer # 0
                     THEN [wr EXCEPT ![sink.writer] = [st |-> "dropped", fut |-> "none"]]
                     ELSE wr
            /\ sink' = [sink EXCEPT !.st = "dropped", !.writer = 0]
            /\ ret' = Ret("drop_sink", 0, "Ok", "")
            /\ UNCHANGED panicked
       ELSE /\ panicked' = TRUE
            /\ ret' = Ret("drop_sink", 0, "Panic", "")
            /\ UNCHANGED <<ws, wr, sink>>
  /\ UNCHANGED <<js, pipe, tee, hooks, rs, src, rd, futs, stream, out>>

\* The underlying sink's write hook takes the oldest write in flight of
\* the IntoSink: it records the chunk, or rejects and errors the stream.
sink_take ==
  /\ ~panicked
  /\ sink.st # "absent" /\ ws.reqs # <<>>
  /\ \E ok \in BOOLEAN :
       LET hs == IF ok THEN HostWriteOk(ws, wr) ELSE HostWriteErr(ws, wr)
       IN  /\ ws' = hs[1]
           /\ wr' = hs[2]
           /\ hooks' = IF ok
                       THEN [hooks EXCEPT !.written =
                               Append(hooks.written, sink.sent[Len(hooks.written) + 1])]
                       ELSE hooks
  /\ calls' = <<>>
  /\ ret' = Ret("sink", 0, "", "")
  /\ UNCHANGED <<sink, js, pipe, tee, rs, src, rd, futs, stream, out, panicked>>

\* ReadableStream::into_stream, at the first poll of the stream it returns:
\* into_stream_fut owns the ReadableStream (mut self), takes a reader from it
\* and returns the unfold over that reader alone. The ReadableStream, and
\* with it the JsUnderlyingSource and its closures, is dropped when the
\* future returns, with the reader or with the error of get_reader. The
\* unfold is then polled as an IntoStream is: a read per item, the reader
\* kept after a chunk and dropped after the end or an error.
into_stream_fut ==
  /\ ~panicked
  /\ js.kind = "source" /\ js.wrapper = "live"
  /\ stream.st = "absent"
  /\ calls' = <<"getReader">>
  /\ js' = [js EXCEPT !.wrapper = "dropped", !.closures = Released]
  /\ IF Propagate(HostGetReaderOk(rs)) = "Ok"
     THEN /\ Fresh # {}
          /\ rs' = HostGetReader(rs, NewReader)
          /\ rd' = [rd EXCEPT ![NewReader] = [kind |-> "opt", st |-> "live"]]
          /\ stream' = [st |-> "live", reader |-> NewReader]
          /\ ret' = Ret("into_stream", NewReader, "Pending", "")
     ELSE /\ UNCHANGED <<rs, rd, stream>>
          /\ ret' = Ret("into_stream", 0, "Ready", "Some(Err)")
  /\ UNCHANGED <<sink, pipe, tee, hooks, src, futs, ws, wr, out, panicked>>

\* ---------------------------------------------------------------- cancel
\* (mutant) a rejected cancel promise is returned as Ok.
CancelResult_ok(p) == "Ok"

\* cancel awaits the host's promise: Ok(()) once it is fulfilled, Err with
\* the reason once it is rejected.
CancelResult(p) == IF p = "fulfilled" THEN "Ok" ELSE "Err"

\* (mutant) cancel does not reach the host.
CancelCalls_nothing(s, f) == <<s, f>>

\* cancel calls the host's cancel on the raw stream or reader.
CancelCalls(s, f) == HostCancel(s, f)

\* The reasons a cancel can carry: cancel() gives none.
CancelReasons == {"undefined", "r1"}

\* The host cancels the stream for `who` (0 for the stream itself): a
\* stream no longer readable is left alone; a readable stream is closed,
\* its pending reads end, and the source's cancel hook gets the reason and
\* succeeds or fails.
CancelSteps(op, who, reason, ok) ==
  IF rs.state # "readable"
  THEN /\ ret' = Ret(op, who, CancelResult(IF rs.state = "closed" THEN "fulfilled" ELSE "rejected"), "")
       /\ UNCHANGED <<rs, futs, hooks>>
  ELSE /\ rs' = CancelCalls(rs, futs)[1]
       /\ futs' = CancelCalls(rs, futs)[2]
       /\ hooks' = [hooks EXCEPT !.cancel = Append(hooks.cancel, reason)]
       /\ ret' = Ret(op, who, CancelResult(IF ok THEN "fulfilled" ELSE "rejected"), "")

\* ReadableStream::cancel / cancel_with_reason: the host rejects the cancel
\* of a locked stream with a TypeError and does nothing.
cancel_with_reason(reason, ok) ==
  /\ ~panicked
  /\ stream.st # "live"
  /\ calls' = <<"cancel">>
  /\ IF rs.locked # 0
     THEN /\ ret' = Ret("cancel", 0, CancelResult("rejected"), TypeError)
          /\ UNCHANGED <<rs, futs, hooks>>
     ELSE CancelSteps("cancel", 0, reason, ok)
  /\ UNCHANGED <<sink, js, pipe, tee, src, rd, stream, ws, wr, out, panicked>>

\* ReadableStreamDefaultReader::cancel / cancel_with_reason: the stream is
\* canceled through the reader, which keeps its lock. A reader that gave
\* its lock back is refused by the host.
reader_cancel(r, reason, ok) ==
  /\ ~panicked
  /\ Idle(r) /\ rd[r].st = "live"
  /\ calls' = <<"cancel">>
  /\ IF rs.locked # r
     THEN /\ ret' = Ret("reader.cancel", r, CancelResult("rejected"), TypeError)
          /\ UNCHANGED <<rs, futs, hooks>>
     ELSE CancelSteps("reader.cancel", r, reason, ok)
  /\ UNCHANGED <<sink, js, pipe, tee, src, rd, stream, ws, wr, out, panicked>>

\* ------------------------------------------------- src/transform/mod.rs
\* What a raw transform stream made by the host's own code does to a chunk.
Upper(c) == IF c = "a" THEN "A" ELSE IF c = "b" THEN "B" ELSE c

\* (mutant) the default transform drops the chunk.
transform_dropped(c) == <<>>

\* Transformer::transform, the default: controller.enqueue(&chunk), the
\* chunk as it came. (What is enqueued, as a sequence.)
transform(c) == <<c>>

\* What the transformer of the stream enqueues for a chunk.
Map(c) == IF js.kind = "raw" /\ js.map = "upper" THEN <<Upper(c)>> ELSE transform(c)

\* TransformStream::new(transformer): JsTransformer::new wraps the three
\* closures; the host's constructor calls the start closure at once.
transform_new ==
  /\ ~panicked
  /\ js.kind = "none"
  /\ js' = CallHook([NoJs EXCEPT !.kind = "transformer", !.wrapper = "live",
                                 !.closures = "alive"], "start")
  /\ calls' = <<"new">>
  /\ ret' = Ret("transform_new", 0, "Ok", "")
  /\ UNCHANGED <<sink, pipe, tee, hooks, rs, src, rd, futs, stream, ws, wr, out, panicked>>

\* From<sys::TransformStream>: a raw transform stream is wrapped, with no
\* transformer of this crate behind it (it passes chunks on, or maps them).
transform_from_raw ==
  /\ ~panicked
  /\ js.kind = "none"
  /\ \E m \in {"id", "upper"} :
       js' = [NoJs EXCEPT !.kind = "raw", !.wrapper = "live", !.map = m]
  /\ hooks' = [hooks EXCEPT !.start = 1]
  /\ calls' = <<>>
  /\ ret' = Ret("transform_from", 0, "Ok", "")
  /\ UNCHANGED <<sink, pipe, tee, rs, src, rd, futs, stream, ws, wr, out, panicked>>

\* TransformStream::forget: the transformer's closures, if there is a
\* transformer, are leaked; the raw stream is returned.
transform_forget ==
  /\ ~panicked
  /\ js.kind \in {"transformer", "raw"} /\ js.wrapper = "live"
  /\ js' = [js EXCEPT !.wrapper = "forgotten",
                      !.closures = IF js.kind = "transformer" THEN Forgotten ELSE js.closures]
  /\ calls' = <<>>
  /\ ret' = Ret("forget", 0, "Ok", "raw")
  /\ UNCHANGED <<sink, pipe, tee, hooks, rs, src, rd, futs, stream, ws, wr, out, panicked>>

\* The TransformStream is dropped, and its JsTransformer, if any, with it.
transform_drop ==
  /\ ~panicked
  /\ js.kind \in {"transformer", "raw"} /\ js.wrapper = "live"
  /\ js' = [js EXCEPT !.wrapper = "dropped",
                      !.closures = IF js.kind = "transformer" THEN Released ELSE js.closures]
  /\ calls' = <<>>
  /\ ret' = Ret("transform_drop", 0, "Ok", "")
  /\ UNCHANGED <<sink, pipe, tee, hooks, rs, src, rd, futs, stream, ws, wr, out, panicked>>

\* WritableStreamDefaultWriter::write of the next chunk to write (the
\* chunks written are src.all, in order), up to its await.
write_next(w) ==
  /\ ~panicked
  /\ IdleW(w) /\ wr[w].st = "live"
  /\ src.items # <<>> /\ Len(ws.reqs) < MaxWrites
  /\ LET hw == HostWrite(ws, wr, w)
     IN  /\ ws' = hw[1]
         /\ wr' = hw[2]
  /\ src' = [src EXCEPT !.items = Tail(src.items)]
  /\ calls' = <<"write">>
  /\ ret' = Ret("write", w, "Pending", src.items[1])
  /\ UNCHANGED <<sink, js, pipe, tee, hooks, rs, rd, futs, stream, out, panicked>>

\* The chunk of the oldest write in flight: the writes are taken in order.
NextWritten == src.all[Len(hooks.written) + 1]

\* The host lets a chunk through the transform stream when start has
\* completed, a write is in flight and the readable side wants a chunk
\* (a read is waiting: the readable side's high water mark is 0).
HostTransforms ==
  /\ hooks.start = 1
  /\ ws.state \in {"writable", "closing"} /\ ws.reqs # <<>>
  /\ rs.state = "readable" /\ rs.reqs # <<>>
  /\ Len(hooks.written) < Len(src.all)

\* The host flushes when the writable side is closing with no write left.
HostFlushes ==
  /\ hooks.start = 1
  /\ ws.state = "closing" /\ ws.reqs = <<>>
  /\ rs.state = "readable"

\* A closure of the transform stream that is gone is called: the call
\* throws, and the host errors both sides of the stream.
TransformThrows ==
  /\ rs' = HostError(rs, futs)[1]
  /\ futs' = HostError(rs, futs)[2]
  /\ ws' = HostWriteErr(ws, wr)[1]
  /\ wr' = HostWriteErr(ws, wr)[2]

\* The host calls the transform closure for the oldest write in flight,
\* or the flush closure at the close.
hook_transform(h) ==
  /\ ~panicked
  /\ js.kind = "transformer" /\ js.inflight = {}
  /\ \/ h = "transform" /\ HostTransforms
     \/ h = "flush" /\ HostFlushes
  /\ js' = CallHook(js, h)
  /\ IF Callable(js.closures)
     THEN /\ panicked' = (js'.borrow = "conflict")
          /\ UNCHANGED <<rs, futs, ws, wr>>
     ELSE /\ TransformThrows
          /\ UNCHANGED panicked
  /\ calls' = <<>>
  /\ ret' = Ret("hook", 0, IF panicked' THEN "Panic" ELSE "", h)
  /\ UNCHANGED <<sink, pipe, tee, hooks, src, rd, stream, out>>

\* A chunk has gone through the transformer: what it enqueues reaches the
\* readable side, and the write is acknowledged.
Transformed ==
  /\ LET e == IF Map(NextWritten) = <<>> THEN <<rs, futs>>
              ELSE HostEnqueue(rs, futs, Map(NextWritten)[1])
     IN  /\ rs' = e[1]
         /\ futs' = e[2]
  /\ ws' = HostWriteOk(ws, wr)[1]
  /\ wr' = HostWriteOk(ws, wr)[2]
  /\ hooks' = [hooks EXCEPT !.written = Append(hooks.written, NextWritten)]

\* The flush is over: the readable side is closed, and so is the writable
\* side, whose close is acknowledged.
Flushed ==
  /\ rs' = HostClose(rs, futs)[1]
  /\ futs' = HostClose(rs, futs)[2]
  /\ ws' = [ws EXCEPT !.state = "closed"]
  /\ wr' = [w \in Writers |->
              IF wr[w].fut = "closing" THEN [wr[w] EXCEPT !.fut = "closed"] ELSE wr[w]]
  /\ hooks' = [hooks EXCEPT !.close = 1]

\* The future of the transformer's hook h completes: the borrow of the
\* transformer ends, and the host goes on.
transform_done(h) ==
  /\ ~panicked
  /\ js.kind = "transformer" /\ js.borrow = h /\ h \in TransformerHooks
  /\ js' = [js EXCEPT !.borrow = "none", !.inflight = js.inflight \ {h}]
  /\ IF h = "transform" THEN Transformed
     ELSE IF h = "flush" THEN Flushed
     ELSE /\ hooks' = [hooks EXCEPT !.start = 1]
          /\ UNCHANGED <<rs, futs, ws, wr>>
  /\ calls' = <<>>
  /\ ret' = Ret("hook_done", 0, "", h)
  /\ UNCHANGED <<sink, pipe, tee, src, rd, stream, out, panicked>>

\* The raw transform stream's own transformer takes the oldest write, or
\* flushes at the close.
raw_transform ==
  /\ ~panicked
  /\ js.kind = "raw"
  /\ \/ HostTransforms /\ Transformed
     \/ HostFlushes /\ Flushed
  /\ calls' = <<>>
  /\ ret' = Ret("host", 0, "", "")
  /\ UNCHANGED <<sink, js, pipe, tee, src, rd, stream, out, panicked>>

\* ------------------------------------- src/readable/mod.rs: pipe and tee
PipeFlags == {"prevent_close", "prevent_abort", "prevent_cancel"}

\* PipeOptions::default(): no flag set.
DefaultOptions == {}

\* (mutant) the options are not handed to the host.
PassOptions_dropped(o) == {}

\* (mutant) prevent_cancel is lost on the way to the host.
PassOptions_no_cancel(o) == o \ {"prevent_cancel"}

\* (mutant) prevent_close is lost on the way to the host.
PassOptions_no_close(o) == o \ {"prevent_close"}

\* options.clone().into_raw(): the host gets the flags the caller set.
PassOptions(o) == o

\* pipe_to / pipe_to_with_options, up to the await: the host's pipeTo is
\* called with the raw streams and the options.
PipeCall(op, o) ==
  /\ ~panicked
  /\ pipe.st = "none"
  /\ LET h == HostPipeTo(rs, ws, PassOptions(o))
     IN  /\ rs' = h[1]
         /\ ws' = h[2]
         /\ pipe' = [h[3] EXCEPT !.fut = "waiting", !.asked = o]
  /\ calls' = <<"pipeTo">>
  /\ ret' = Ret(op, 0, "Pending", "")
  /\ UNCHANGED <<sink, js, tee, hooks, src, rd, futs, stream, wr, out, panicked>>

\* ReadableStream::pipe_to
pipe_to == PipeCall("pipe_to", DefaultOptions)

\* ReadableStream::pipe_to_with_options
pipe_to_with_options == \E o \in SUBSET PipeFlags : PipeCall("pipe_to_with_options", o)

\* (mutant) a rejected pipe is reported as success.
PipeResult_ok(p) == "Ok"

\* promise_to_void_future(promise).await: Ok(()) for a fulfilled promise,
\* Err(error) for a rejected one.
PipeResult(p) == IF p = "ok" THEN "Ok" ELSE "Err"

\* pipe_to / pipe_to_with_options, after the await.
pipe_ready ==
  /\ ~panicked
  /\ pipe.fut = "waiting" /\ pipe.promise \in {"ok", "err"}
  /\ ret' = Ret("pipe", 0, PipeResult(pipe.promise),
                IF PipeResult(pipe.promise) = "Err" THEN pipe.err ELSE "")
  /\ pipe' = [pipe EXCEPT !.fut = "returned"]
  /\ calls' = <<>>
  /\ UNCHANGED <<sink, js, tee, hooks, rs, src, rd, futs, stream, ws, wr, out, panicked>>

\* The caller drops the future of pipe_to before it is ready: the host's
\* pipe goes on.
pipe_abandon ==
  /\ ~panicked
  /\ pipe.fut = "waiting"
  /\ pipe' = [pipe EXCEPT !.fut = "dropped"]
  /\ calls' = <<>>
  /\ ret' = Ret("pipe_abandon", 0, "", "")
  /\ UNCHANGED <<sink, js, tee, hooks, rs, src, rd, futs, stream, ws, wr, out, panicked>>

\* ----------------------------------------------------- the host's pipe
\* The pipe reads a chunk from the source while both streams are healthy
\* and the destination has room.
pipe_read ==
  /\ ~panicked
  /\ pipe.st = "piping" /\ PipeRules(rs, ws) = {}
  /\ futs[PipeFut] = "none" /\ Len(ws.reqs) < MaxWrites /\ Len(rs.reqs) < MaxReqs
  /\ LET hr == HostRead(rs, futs, PipeFut, PipeFut)
     IN  /\ rs' = hr[1]
         /\ futs' = hr[2]
  /\ calls' = <<>>
  /\ ret' = Ret("host", 0, "", "")
  /\ UNCHANGED <<sink, js, pipe, tee, hooks, src, rd, stream, ws, wr, out, panicked>>

\* The pipe writes the chunk it has read to the destination; a pipe that
\* is shutting down still writes the chunk it had read.
pipe_write ==
  /\ ~panicked
  /\ pipe.st \in {"piping", "ending"}
  /\ futs[PipeFut] \in Chunks /\ ws.state = "writable" /\ Len(ws.reqs) < MaxWrites
  /\ ws' = [ws EXCEPT !.reqs = Append(ws.reqs, PipeFut)]
  /\ pipe' = [pipe EXCEPT !.sent = Append(pipe.sent, futs[PipeFut])]
  /\ futs' = [futs EXCEPT ![PipeFut] = "none"]
  /\ calls' = <<>>
  /\ ret' = Ret("host", 0, "", "")
  /\ UNCHANGED <<sink, js, tee, hooks, rs, src, rd, stream, wr, out, panicked>>

\* The underlying sink's write hook settles the oldest write of the pipe:
\* it takes the chunk, or rejects and the destination errors.
sink_write ==
  /\ ~panicked
  /\ ws.reqs # <<>> /\ Head(ws.reqs) = PipeFut /\ ws.state = "writable"
  /\ \E ok \in BOOLEAN :
       IF ok
       THEN /\ ws' = [ws EXCEPT !.reqs = Tail(ws.reqs)]
            /\ hooks' = [hooks EXCEPT
                           !.written = Append(hooks.written,
                                              pipe.sent[Len(hooks.written) + 1])]
       ELSE /\ ws' = [ws EXCEPT !.state = "errored", !.reqs = <<>>]
            /\ UNCHANGED hooks
  /\ calls' = <<>>
  /\ ret' = Ret("host", 0, "", "")
  /\ UNCHANGED <<sink, js, pipe, tee, rs, src, rd, futs, stream, wr, out, panicked>>

\* The pipe notices one of the conditions that end it and decides what to
\* do to the other stream.
pipe_step ==
  /\ ~panicked
  /\ pipe.st = "piping"
  /\ \E x \in PipeRules(rs, ws) :
       pipe' = [pipe EXCEPT !.st = "ending", !.act = PipeAction(x, pipe.opts),
                            !.first = PipeError(x), !.err = PipeError(x)]
  /\ calls' = <<>>
  /\ ret' = Ret("host", 0, "", "")
  /\ UNCHANGED <<sink, js, tee, hooks, rs, src, rd, futs, stream, ws, wr, out, panicked>>

\* The outcome of the pipe's action on the other stream: the streams, the
\* read futures and the hooks after it, and the error it failed with.
\* A hook is called only on a stream still open to it; ok is whether the
\* hook, when called, succeeds.
PipeActed(ok) ==
  LET same == [s |-> rs, f |-> futs, d |-> ws, h |-> hooks, e |-> ""]
  IN  IF pipe.act = "abort" /\ ws.state \in {"writable", "closing"}
      THEN [same EXCEPT !.d = [ws EXCEPT !.state = "errored", !.reqs = <<>>],
                        !.h = [hooks EXCEPT !.abort = Append(hooks.abort, pipe.first)],
                        !.e = IF ok THEN "" ELSE "AbortErr"]
      ELSE IF pipe.act = "cancel" /\ rs.state = "readable"
      THEN [same EXCEPT !.s = HostCancel(rs, futs)[1],
                        !.f = HostCancel(rs, futs)[2],
                        !.h = [hooks EXCEPT !.cancel = Append(hooks.cancel, pipe.first)],
                        !.e = IF ok THEN "" ELSE "CancelErr"]
      ELSE IF pipe.act = "cancel" /\ rs.state = "errored"
      THEN [same EXCEPT !.e = SrcErr]
      ELSE IF pipe.act = "close" /\ ws.state = "writable"
      THEN [same EXCEPT !.d = [ws EXCEPT !.state = IF ok THEN "closed" ELSE "errored"],
                        !.h = [hooks EXCEPT !.close = hooks.close + 1],
                        !.e = IF ok THEN "" ELSE "CloseErr"]
      ELSE IF pipe.act = "close" /\ ws.state = "errored"
      THEN [same EXCEPT !.e = SinkErr]
      ELSE same

\* The pipe has nothing left to write: the chunk it had read is written
\* and acknowledged, or the destination takes no more writes.
PipeFlushed ==
  \/ ws.state # "writable"
  \/ futs[PipeFut] \notin Chunks /\ ws.reqs = <<>>

\* The end of the pipe: its action on the other stream, the release of
\* both locks, and the settling of the promise with the action's error if
\* it failed, else with the error that ended the pipe, if any.
pipe_end ==
  /\ ~panicked
  /\ pipe.st = "ending" /\ PipeFlushed
  /\ \E ok \in BOOLEAN :
       LET a == PipeActed(ok)
           e == IF a.e # "" THEN a.e ELSE pipe.err
       IN  /\ rs' = [a.s EXCEPT !.locked = 0, !.reqs = <<>>]
           /\ futs' = [a.f EXCEPT ![PipeFut] = "none"]
           /\ ws' = [a.d EXCEPT !.locked = 0]
           /\ hooks' = a.h
           /\ pipe' = [pipe EXCEPT !.st = "done", !.err = e,
                                   !.promise = IF e = "" THEN "ok" ELSE "err"]
  /\ calls' = <<>>
  /\ ret' = Ret("host", 0, "", "")
  /\ UNCHANGED <<sink, js, tee, src, rd, stream, wr, out, panicked>>

\* (mutant) try_tee keeps the stream it failed on.
GivesBack_nothing(res) == ""

\* What try_tee returns next to the error: Err((err, self)).
GivesBack(res) == IF res = "Err" THEN "stream" ELSE ""

\* ReadableStream::try_tee: the host's tee locks the stream and makes the
\* two branches; on a locked stream the error and the stream come back.
try_tee ==
  /\ ~panicked
  /\ calls' = <<"tee">>
  /\ IF Propagate(HostGetReaderOk(rs)) = "Ok"
     THEN /\ tee.st = "none"
          /\ rs' = HostGetReader(rs, TeeFut)
          /\ tee' = [NoTee EXCEPT !.st = "live"]
          /\ ret' = Ret("try_tee", 0, "Ok", GivesBack("Ok"))
     ELSE /\ UNCHANGED <<rs, tee>>
          /\ ret' = Ret("try_tee", 0, "Err", GivesBack("Err"))
  /\ UNCHANGED <<sink, js, pipe, hooks, src, rd, futs, stream, ws, wr, out, panicked>>

\* The two branches, and the reasons a branch can be canceled with.
Branches == {1, 2}
Reasons == {"r1", "r2"}
Other(i) == 3 - i

\* What a read on a branch yields for a settled result.
BranchItem(f) == LET r == ReadResult(f) IN IF r.res = "Err" THEN "Err" ELSE r.val

\* A branch that still gets what the tee reads.
BranchOpen(b) == b.state = "readable"

\* The tee enqueues a chunk in a branch: a waiting read gets it at once.
BranchGive(b, c) ==
  IF ~BranchOpen(b) THEN b
  ELSE IF b.want THEN [b EXCEPT !.want = FALSE, !.got = Append(b.got, BranchItem(c))]
  ELSE [b EXCEPT !.queue = Append(b.queue, c)]

\* The tee closes a branch: closed once its queue is drained.
BranchClose(b) ==
  IF ~BranchOpen(b) THEN b
  ELSE IF b.queue # <<>> THEN [b EXCEPT !.state = "closing"]
  ELSE [b EXCEPT !.state = "closed", !.want = FALSE,
                 !.got = IF b.want THEN Append(b.got, BranchItem("done")) ELSE b.got]

\* The tee errors a branch: its queue is dropped, a waiting read rejects.
BranchError(b) ==
  IF b.state \notin {"readable", "closing"} THEN b
  ELSE [b EXCEPT !.state = "errored", !.queue = <<>>, !.want = FALSE,
                 !.got = IF b.want THEN Append(b.got, BranchItem("err")) ELSE b.got]

\* A branch is canceled: it closes, its queue is dropped, a waiting read
\* settles with done.
BranchCancel(b) ==
  [b EXCEPT !.state = "closed", !.queue = <<>>, !.want = FALSE,
            !.got = IF b.want THEN Append(b.got, BranchItem("done")) ELSE b.got]

\* A read on a branch has come to its end.
BranchEnded(b) == b.got # <<>> /\ b.got[Len(b.got)] \notin Chunks

\* ReadableStreamDefaultReader::read on a reader of branch i, awaited: the
\* next chunk of the branch, its end, or a request the tee will answer.
branch_read(i) ==
  /\ ~panicked
  /\ tee.st = "live"
  /\ LET b == tee.br[i]
     IN  /\ ~b.want /\ ~BranchEnded(b)
         /\ tee' = [tee EXCEPT !.br[i] =
              IF b.queue # <<>>
              THEN [b EXCEPT !.queue = Tail(b.queue),
                             !.got = Append(b.got, BranchItem(Head(b.queue))),
                             !.state = IF b.state = "closing" /\ Tail(b.queue) = <<>>
                                       THEN "closed" ELSE b.state]
              ELSE IF b.state = "closed" THEN [b EXCEPT !.got = Append(b.got, BranchItem("done"))]
              ELSE IF b.state = "errored" THEN [b EXCEPT !.got = Append(b.got, BranchItem("err"))]
              ELSE [b EXCEPT !.want = TRUE]]
  /\ calls' = <<"read">>
  /\ ret' = Ret("branch.read", i, "", "")
  /\ UNCHANGED <<sink, js, pipe, hooks, rs, src, rd, futs, stream, ws, wr, out, panicked>>

\* (mutant) the reason is not handed to the host.
PassReason_undefined(r) == "undefined"

\* cancel_with_reason(reason): the host gets the caller's reason.
PassReason(r) == r

\* ReadableStream::cancel_with_reason on branch i. The host closes the
\* branch and keeps its reason; once both branches are canceled it cancels
\* the original stream with the two reasons, and the source's cancel hook
\* is called if the original is still readable.
branch_cancel(i, r) ==
  /\ ~panicked
  /\ tee.st = "live"
  /\ tee.br[i].state \in {"readable", "closing"} /\ ~tee.canceled[i]
  /\ LET rr == [tee.reasons EXCEPT ![i] = PassReason(r)]
         both == tee.canceled[Other(i)]
     IN  /\ tee' = [tee EXCEPT !.canceled[i] = TRUE, !.reasons = rr, !.asked[i] = r,
                                !.br[i] = BranchCancel(tee.br[i])]
         /\ IF both /\ rs.state = "readable"
            THEN /\ rs' = HostCancel(rs, futs)[1]
                 /\ futs' = HostCancel(rs, futs)[2]
                 /\ hooks' = [hooks EXCEPT !.cancel = Append(hooks.cancel, rr)]
            ELSE UNCHANGED <<rs, futs, hooks>>
  /\ calls' = <<"cancel">>
  /\ ret' = Ret("branch.cancel", i, "", "")
  /\ UNCHANGED <<sink, js, pipe, src, rd, stream, ws, wr, out, panicked>>

\* ------------------------------------------------------ the host's tee
\* A branch that wants a chunk makes the tee read the original stream.
tee_pull ==
  /\ ~panicked
  /\ tee.st = "live" /\ ~tee.reading /\ rs.locked = TeeFut
  /\ \E i \in Branches :
       BranchOpen(tee.br[i]) /\ (tee.br[i].want \/ tee.br[i].queue = <<>>)
  /\ Len(rs.reqs) < MaxReqs
  /\ LET hr == HostRead(rs, futs, TeeFut, TeeFut)
     IN  /\ rs' = hr[1]
         /\ futs' = hr[2]
  /\ tee' = [tee EXCEPT !.reading = TRUE]
  /\ calls' = <<>>
  /\ ret' = Ret("host", 0, "", "")
  /\ UNCHANGED <<sink, js, pipe, hooks, src, rd, stream, ws, wr, out, panicked>>

\* The tee's read has settled: a chunk goes to both branches (the same
\* value), done closes them, an error errors them.
tee_deliver ==
  /\ ~panicked
  /\ tee.st = "live" /\ tee.reading /\ Settled(futs[TeeFut])
  /\ LET x == futs[TeeFut]
     IN  tee' = [tee EXCEPT !.reading = FALSE,
                            !.br = [i \in Branches |->
                                      IF x = "done" THEN BranchClose(tee.br[i])
                                      ELSE IF x = "err" THEN BranchError(tee.br[i])
                                      ELSE BranchGive(tee.br[i], x)]]
  /\ futs' = [futs EXCEPT ![TeeFut] = "none"]
  /\ calls' = <<>>
  /\ ret' = Ret("host", 0, "", "")
  /\ UNCHANGED <<sink, js, pipe, hooks, rs, src, rd, stream, ws, wr, out, panicked>>

\* The original stream errored with no read of the tee pending: the tee
\* errors both branches.
tee_fail ==
  /\ ~panicked
  /\ tee.st = "live" /\ ~tee.reading /\ rs.state = "errored"
  /\ \E i \in Branches : tee.br[i].state \in {"readable", "closing"}
  /\ tee' = [tee EXCEPT !.br = [i \in Branches |-> BranchError(tee.br[i])]]
  /\ calls' = <<>>
  /\ ret' = Ret("host", 0, "", "")
  /\ UNCHANGED <<sink, js, pipe, hooks, rs, src, rd, futs, stream, ws, wr, out, panicked>>

\* ---------------------------------------------------------- specifications
\* The two handles share no state: a run exercises one of them, the
\* readable stream (its source, readers and IntoStream) or the writable one.
ReadableUntouched ==
  /\ rs = [state |-> "readable", queue |-> <<>>, closeReq |-> FALSE,
           locked |-> 0, reqs |-> <<>>]
  /\ \A r \in Readers : rd[r].st = "unborn"
  /\ stream.st = "absent"
WritableUntouched ==
  /\ ws = [state |-> "writable", locked |-> 0, reqs |-> <<>>]
  /\ \A w \in Writers : wr[w].st = "unborn"

Next ==
  \/ WritableUntouched /\ pull
  \/ WritableUntouched /\ try_get_reader
  \/ WritableUntouched /\ get_reader
  \/ WritableUntouched /\ \E r \in Readers : read_start(r)
  \/ WritableUntouched /\ \E r \in Readers : read_ready(r)
  \/ WritableUntouched /\ \E r \in Readers : read_abandon(r)
  \/ WritableUntouched /\ \E r \in Readers : release_lock(r)
  \/ WritableUntouched /\ \E r \in Readers : try_release_lock(r)
  \/ WritableUntouched /\ \E r \in Readers : drop_reader(r)
  \/ WritableUntouched /\ \E r \in Readers : release_lock_opt(r)
  \/ WritableUntouched /\ \E r \in Readers : drop_reader_opt(r)
  \/ WritableUntouched /\ \E r \in Readers : read_released(r)
  \/ WritableUntouched /\ \E r \in Readers : into_stream(r)
  \/ WritableUntouched /\ try_into_stream
  \/ WritableUntouched /\ poll_next
  \/ WritableUntouched /\ drop_stream
  \/ ReadableUntouched /\ get_writer
  \/ ReadableUntouched /\ \E w \in Writers : write_start(w)
  \/ ReadableUntouched /\ \E w \in Writers : write_ready(w)
  \/ ReadableUntouched /\ \E w \in Writers : write_abandon(w)
  \/ ReadableUntouched /\ sink_settle
  \/ ReadableUntouched /\ \E w \in Writers : release_lock_w(w)
  \/ ReadableUntouched /\ \E w \in Writers : drop_writer(w)

Spec == Init /\ [][Next]_vars

\* from_stream followed by into_stream: the stream made by from_stream
\* (high water mark 0) is consumed by the IntoStream alone.
InitFromStream == Init /\ src.hwm = FromStreamHWM
NextRoundTrip == pull \/ try_into_stream \/ poll_next \/ drop_stream
SpecRoundTrip == InitFromStream /\ [][NextRoundTrip]_vars

\* A readable stream piped to a writable stream. Before the pipe a writer
\* may have closed the destination (the two streams share nothing until
\* the pipe: the destination is prepared first).
NextPipe ==
  \/ pull
  \/ pipe_to
  \/ pipe_to_with_options
  \/ pipe_ready
  \/ pipe_abandon
  \/ pipe_read
  \/ pipe_write
  \/ sink_write
  \/ pipe_step
  \/ pipe_end
  \/ ReadableUntouched /\ pipe.st = "none" /\ get_writer
  \/ ReadableUntouched /\ pipe.st = "none" /\ \E w \in Writers : close_start(w)
  \/ ReadableUntouched /\ pipe.st = "none" /\ \E w \in Writers : close_ready(w)
  \/ ReadableUntouched /\ pipe.st = "none" /\ \E w \in Writers : write_abandon(w)
  \/ ReadableUntouched /\ pipe.st = "none" /\ sink_close
  \/ ReadableUntouched /\ pipe.st = "none" /\ \E w \in Writers : drop_writer(w)
SpecPipe == Init /\ [][NextPipe]_vars

\* A pipe to a destination nobody else touches, with readers, IntoStreams
\* and tees attempted on the source while it runs and after it.
NextPipeLock ==
  \/ pull
  \/ pipe_to
  \/ pipe_to_with_options
  \/ pipe_ready
  \/ pipe_abandon
  \/ pipe_read
  \/ pipe_write
  \/ sink_write
  \/ pipe_step
  \/ pipe_end
  \/ pipe.st # "none" /\ try_get_reader
  \/ pipe.st # "none" /\ \E r \in Readers : drop_reader(r)
  \/ pipe.st # "none" /\ try_into_stream
  \/ pipe.st # "none" /\ drop_stream
  \/ pipe.st # "none" /\ try_tee
SpecPipeLock == Init /\ [][NextPipeLock]_vars

\* A stream that is teed, its two branches read and canceled in any
\* order; before the tee, readers and IntoStreams come and go on it.
NextTee ==
  \/ pull
  \/ try_tee
  \/ tee_pull
  \/ tee_deliver
  \/ tee_fail
  \/ \E i \in Branches : branch_read(i)
  \/ \E i \in Branches, r \in Reasons : branch_cancel(i, r)
  \/ tee.st = "none" /\ try_get_reader
  \/ tee.st = "none" /\ \E r \in Readers : drop_reader(r)
  \/ tee.st = "none" /\ try_into_stream
  \/ tee.st = "none" /\ drop_stream
SpecTee == Init /\ [][NextTee]_vars

\* A writable stream used through its writers: writes, close and abort,
\* with the sink accepting or rejecting each.
NextWriter ==
  \/ get_writer
  \/ \E w \in Writers : write_start(w)
  \/ \E w \in Writers : write_ready(w)
  \/ \E w \in Writers : write_abandon(w)
  \/ sink_settle
  \/ \E w \in Writers : close_start(w)
  \/ \E w \in Writers : close_ready(w)
  \/ sink_close
  \/ \E w \in Writers : abort_start(w)
  \/ \E w \in Writers : abort_ready(w)
  \/ sink_abort
  \/ \E w \in Writers : release_lock_w(w)
  \/ \E w \in Writers : drop_writer(w)
InitWriter == Init /\ src.all = <<>> /\ src.end = "idle" /\ src.hwm = DefaultHWM
SpecWriter == InitWriter /\ [][NextWriter]_vars

\* A writable stream written through the IntoSink of its writer.
NextSink ==
  \/ get_writer
  \/ \E w \in Writers : into_sink(w)
  \/ \E c \in Chunks : send(c)
  \/ poll_flush
  \/ poll_close
  \/ drop_sink
  \/ sink_take
  \/ sink_close
SpecSink == InitWriter /\ [][NextSink]_vars

\* A stream made by ReadableStream::new over a backing source whose hooks
\* may suspend, read through a reader and canceled through the handle.
InitHooks == Init /\ src.hwm = DefaultHWM
NextHooks ==
  \/ new
  \/ hook_pull
  \/ cancel_opt
  \/ \E h \in SourceHooks : hook_done(h)
  \/ js.kind = "source" /\ get_reader
  \/ js.kind = "source" /\ \E r \in Readers : read_start(r)
  \/ js.kind = "source" /\ \E r \in Readers : read_ready(r)
  \/ js.kind = "source" /\ \E r \in Readers : drop_reader_opt(r)
SpecHooks == InitHooks /\ [][NextHooks]_vars

\* A transform stream: chunks are written to its writable side and closed,
\* while its readable side is read.
Transforming == js.kind \in {"transformer", "raw"}
NextTransform ==
  \/ transform_new
  \/ transform_from_raw
  \/ \E h \in TransformerHooks : hook_transform(h)
  \/ \E h \in TransformerHooks : transform_done(h)
  \/ raw_transform
  \/ Transforming /\ get_writer
  \/ Transforming /\ \E w \in Writers : write_next(w)
  \/ Transforming /\ \E w \in Writers : write_ready(w)
  \/ Transforming /\ \E w \in Writers : close_start(w)
  \/ Transforming /\ \E w \in Writers : close_ready(w)
  \/ Transforming /\ get_reader
  \/ Transforming /\ \E r \in Readers : read_start(r)
  \/ Transforming /\ \E r \in Readers : read_ready(r)
  \/ Transforming /\ try_into_stream
  \/ Transforming /\ poll_next
InitTransform == Init /\ src.end = "close" /\ src.hwm = FromStreamHWM
SpecTransform == InitTransform /\ [][NextTransform]_vars

\* The life of the closures: a stream over a source of this crate, or a
\* transform stream, is made, used, and forgotten or dropped while the host
\* still has the raw stream.
Sourced == js.kind = "source"
NextClosures ==
  \/ new
  \/ forget
  \/ drop_readable
  \/ hook_pull
  \/ cancel_opt
  \/ \E h \in SourceHooks : hook_done(h)
  \/ transform_new
  \/ transform_from_raw
  \/ transform_forget
  \/ transform_drop
  \/ \E h \in TransformerHooks : hook_transform(h)
  \/ \E h \in TransformerHooks : transform_done(h)
  \/ raw_transform
  \/ Transforming /\ get_writer
  \/ Transforming /\ \E w \in Writers : write_next(w)
  \/ Transforming /\ \E w \in Writers : close_start(w)
  \/ (Sourced \/ Transforming) /\ get_reader
  \/ (Sourced \/ Transforming) /\ \E r \in Readers : read_start(r)
SpecClosures == InitHooks /\ [][NextClosures]_vars

\* Canceling: a stream over a raw or native stream (Plain), or over a
\* source of this crate (Sourced), is read through readers of either module
\* and canceled, through the stream or, a Plain one, through a reader.
Plain == js.kind = "none"
Unborn == ret.op = "init"
NextCancel ==
  \/ Unborn /\ new
  \/ hook_pull
  \/ cancel_opt
  \/ \E h \in SourceHooks : hook_done(h)
  \/ Plain /\ pull
  \/ Plain /\ \E reason \in CancelReasons, ok \in BOOLEAN : cancel_with_reason(reason, ok)
  \/ Plain /\ try_get_reader
  \/ get_reader
  \/ \E r \in Readers : read_start(r)
  \/ \E r \in Readers : read_ready(r)
  \/ \E r \in Readers : read_abandon(r)
  \/ Plain /\ \E r \in Readers, reason \in CancelReasons, ok \in BOOLEAN : reader_cancel(r, reason, ok)
  \/ \E r \in Readers : release_lock(r)
  \/ \E r \in Readers : drop_reader(r)
  \/ \E r \in Readers : release_lock_opt(r)
  \/ \E r \in Readers : drop_reader_opt(r)
SpecCancel == InitHooks /\ [][NextCancel]_vars

\* A stream over a source of this crate is turned into a Stream and polled,
\* while the host calls the source's hooks.
NextIntoStream ==
  \/ new
  \/ hook_pull
  \/ \E h \in SourceHooks : hook_done(h)
  \/ Sourced /\ get_reader
  \/ Sourced /\ \E r \in Readers : drop_reader_opt(r)
  \/ into_stream_fut
  \/ Sourced /\ poll_next
  \/ Sourced /\ drop_stream
SpecIntoStream == InitHooks /\ [][NextIntoStream]_vars

\* An IntoStream that is polled to its end: the source gives its chunks and
\* then closes or errors, the host answers the reads it was asked (pull is
\* both, and is taken whenever it stays possible), and the IntoStream is
\* polled again whenever a poll can make progress. The reader it is made
\* from may have abandoned a read before.
InitLive == Init /\ src.end # "idle"
NextLive ==
  \/ pull
  \/ try_get_reader
  \/ \E r \in Readers : read_start(r)
  \/ \E r \in Readers : read_abandon(r)
  \/ \E r \in Readers : into_stream(r)
  \/ try_into_stream
  \/ poll_next
SpecLive == InitLive /\ [][NextLive]_vars /\ WF_vars(pull) /\ WF_vars(poll_next)

\* The Option-based reader and writer, used before and after a release of
\* their lock: one of the two streams at a time.
NextReleased ==
  \/ WritableUntouched /\ pull
  \/ WritableUntouched /\ get_reader
  \/ WritableUntouched /\ \E r \in Readers : read_start(r)
  \/ WritableUntouched /\ \E r \in Readers : read_ready(r)
  \/ WritableUntouched /\ \E r \in Readers : read_abandon(r)
  \/ WritableUntouched /\ \E r \in Readers : release_lock_opt(r)
  \/ WritableUntouched /\ \E r \in Readers : drop_reader_opt(r)
  \/ WritableUntouched /\ \E r \in Readers, op \in ReaderOps : reader_released(r, op)
  \/ ReadableUntouched /\ get_writer
  \/ ReadableUntouched /\ \E w \in Writers : write_start(w)
  \/ ReadableUntouched /\ \E w \in Writers : write_ready(w)
  \/ ReadableUntouched /\ sink_settle
  \/ ReadableUntouched /\ \E w \in Writers : release_lock_w(w)
  \/ ReadableUntouched /\ \E w \in Writers : drop_writer(w)
  \/ ReadableUntouched /\ \E w \in Writers, op \in WriterOps : writer_released(w, op)
SpecReleased == Init /\ [][NextReleased]_vars

\* A stream over a source whose start hook produces everything
\* (ReadableStream::new(Box::new(HelloWorldSource))), read through a reader.
InitStart == Init /\ src.end = "close" /\ src.hwm = DefaultHWM
NextStart ==
  \/ start
  \/ try_get_reader
  \/ get_reader
  \/ \E r \in Readers : read_start(r)
  \/ \E r \in Readers : read_ready(r)
  \/ \E r \in Readers : closed(r)
  \/ \E r \in Readers : drop_reader(r)
  \/ \E r \in Readers : release_lock_opt(r)
  \/ \E r \in Readers : drop_reader_opt(r)
SpecStart == InitStart /\ [][NextStart]_vars

\* -------------------------------------------------------------- claims
ReaderAcquire == {"try_get_reader", "get_reader", "try_into_stream"}

\* The readers / writers that have not released their lock.
Unreleased == {r \in Readers : rd[r].st = "live"}
UnreleasedW == {w \in Writers : wr[w].st = "live"}

\* The stream is locked to exactly the unreleased reader, if there is one.
OneLockHolder ==
  /\ \A r \in Readers : r \in Unreleased <=> rs.locked = r
  /\ \A w \in Writers : w \in UnreleasedW <=> ws.locked = w
  /\ Cardinality(Unreleased) <= 1
  /\ Cardinality(UnreleasedW) <= 1

\* Acquiring on a locked handle returns an error and changes nothing.
AcquireLockedFails ==
  /\ (ret'.op \in ReaderAcquire /\ rs.locked # 0)
       => ret'.res = "Err" /\ rd' = rd /\ rs' = rs /\ stream' = stream
  /\ (ret'.op = "get_writer" /\ ws.locked # 0)
       => ret'.res = "Err" /\ wr' = wr /\ ws' = ws

\* Acquiring on an unlocked handle succeeds and locks it to the new holder.
AcquireUnlockedSucceeds ==
  /\ (ret'.op \in ReaderAcquire /\ rs.locked = 0)
       => /\ ret'.res = "Ok"
          /\ rd[ret'.who].st = "unborn"
          /\ Unreleased' = {ret'.who}
          /\ rs'.locked = ret'.who
  /\ (ret'.op = "get_writer" /\ ws.locked = 0)
       => /\ ret'.res = "Ok"
          /\ wr[ret'.who].st = "unborn"
          /\ UnreleasedW' = {ret'.who}
          /\ ws'.locked = ret'.who

\* C1: Lock exclusivity. try_get_reader / get_reader / try_into_stream /
\* get_writer on a locked handle return an error and create no second
\* reader or writer; on a handle whose holder has released its lock
\* (explicitly or by drop) they succeed; and in every reachable state at
\* most one unreleased reader (writer) exists, the one the handle is
\* locked to.
C1_LockExclusivity ==
  /\ []OneLockHolder
  /\ [][AcquireLockedFails /\ AcquireUnlockedSucceeds]_vars

\* A second acquisition fails on a stream that was released once and
\* acquired again.
C1_Witness ==
  /\ ret.op \in ReaderAcquire /\ ret.res = "Err"
  /\ rd[1].st \in {"released", "dropped"}
  /\ rs.locked = 2

Last(s) == s[Len(s)]
PollStep == ret'.op = "poll_next"

\* The host read requests the IntoStream has issued and the host has not settled.
StreamReads == Cardinality({i \in DOMAIN rs.reqs : rs.reqs[i] = StreamFut})

\* A cached future that is not ready is exactly one queued host request;
\* with no abandoned read() on the reader it is the reader's only one.
OnePendingRead ==
  /\ StreamReads <= 1
  /\ (fut = "pending") <=> (StreamReads = 1)
  /\ (stream.st = "live" /\ reader # 0 /\ Abandoned \notin Range(rs.reqs))
       => Len(rs.reqs) <= 1

\* poll_next calls the host's read only with no future cached, and once.
ReadsOnlyWhenIdle ==
  (PollStep /\ "read" \in Range(calls'))
    => fut = "none" /\ reader # 0 /\ calls' = <<"read">> /\ futs'[StreamFut] # "none"

\* poll_next with an unresolved read polls the cached future again.
RepollsCached ==
  (PollStep /\ fut = "pending")
    => calls' = <<>> /\ rs' = rs /\ futs' = futs /\ ret'.res = "Pending"

\* C2: At most one pending read. IntoStream::poll_next issues a host read
\* only when no read future is cached; while the cached read is unresolved
\* a further poll_next polls that future again and issues no host read; so
\* the reads the IntoStream has issued and the host has not resolved never
\* number more than one.
C2_AtMostOnePendingRead ==
  /\ []OnePendingRead
  /\ [][ReadsOnlyWhenIdle /\ RepollsCached]_vars

\* The stream was polled again while its read was still unresolved.
C2_Witness ==
  /\ ret.op = "poll_next" /\ ret.res = "Pending" /\ calls = <<>>
  /\ fut = "pending" /\ StreamReads = 1

\* How a terminated IntoStream ended.
EndedByError == out # <<>> /\ Last(out) = "Some(Err)"
Terminated == stream.st = "live" /\ is_terminated

\* A poll of a terminated stream returns Ready(None) and touches nothing.
PollAfterEnd ==
  /\ ret'.res = "Ready" /\ ret'.val = "None"
  /\ calls' = <<>>
  /\ rs' = rs /\ rd' = rd /\ futs' = futs /\ stream' = stream /\ out' = out

\* poll_next that finds the read resolved with done drops the reader and
\* yields None.
DoneDropsReader ==
  (PollStep /\ fut = "done")
    => /\ ret'.res = "Ready" /\ ret'.val = "None"
       /\ "read" \notin Range(calls')
       /\ is_terminated' /\ ~panicked'
       /\ rd'[reader].st = "dropped" /\ rs'.locked # reader
       /\ out' = out

\* C3: Read-after-close on the IntoStream. Once a host read has resolved
\* with done, poll_next drops the reader, and every later poll_next, however
\* many, returns Ready(None) without a host call.
C3_ReadAfterCloseStream ==
  [][/\ DoneDropsReader
     /\ (PollStep /\ Terminated /\ ~EndedByError) => PollAfterEnd
     /\ (Terminated /\ ~EndedByError /\ stream'.st = "live")
          => (is_terminated /\ ~EndedByError)']_vars

\* A poll after the stream ended with done, all chunks delivered.
C3_Witness ==
  /\ Terminated /\ ~EndedByError
  /\ ret = Ret("poll_next", 0, "Ready", "None")
  /\ rs.state = "closed" /\ out # <<>>

\* A step that starts a read() on a reader whose stream has closed.
ReadStartAfterClose ==
  /\ ret'.op = "read" /\ ret'.res = "Pending"
  /\ rs.state = "closed" /\ rs.locked = ret'.who

\* read() on a settled done result returns Ok(None).
DoneReturnsNone ==
  (ret'.op = "read" /\ ret'.res \notin {"Pending", "Panic"} /\ futs[ret'.who] = "done")
    => ret'.res = "Ok" /\ ret'.val = "None" /\ calls' = <<>> /\ rs' = rs

\* C4 as stated: once the source has signalled completion, every later
\* ReadableStreamDefaultReader::read on the reader returns Ok(None) and
\* issues no new host read call.
C4_Original ==
  [][/\ ReadStartAfterClose => (calls' = <<>> /\ futs'[ret'.who] = "done")
     /\ DoneReturnsNone]_vars

\* C4 (amended): once the stream has closed, every later read on a reader
\* that still holds its lock returns Ok(None); each such read issues
\* exactly one host read, which the host answers with done at once and
\* which leaves no request pending and the stream unchanged.
C4_ReadAfterCloseReader ==
  [][/\ ReadStartAfterClose
          => (calls' = <<"read">> /\ futs'[ret'.who] = "done" /\ rs' = rs)
     /\ DoneReturnsNone]_vars

\* A read was started on a stream that had produced its chunks and closed:
\* the host was called and answered done at once.
C4_Witness ==
  /\ ret.op = "read" /\ ret.res = "Pending" /\ calls = <<"read">>
  /\ rs.state = "closed" /\ rs.locked = ret.who /\ rs.reqs = <<>>
  /\ futs[ret.who] = "done"
  /\ src.all # <<>>

\* poll_next that finds the read rejected yields the error and drops the
\* reader.
ErrDropsReader ==
  (PollStep /\ fut = "err")
    => /\ ret'.res = "Ready" /\ ret'.val = "Some(Err)"
       /\ "read" \notin Range(calls')
       /\ is_terminated' /\ ~panicked'
       /\ rd'[reader].st = "dropped" /\ rs'.locked # reader
       /\ out' = Append(out, "Some(Err)")

\* An Err item is the last item, and the stream that yielded it is terminated.
ErrIsLast ==
  /\ \A i \in DOMAIN out : out[i] = "Some(Err)" => i = Len(out)
  /\ (EndedByError /\ stream.st = "live") => is_terminated

\* C5: Error is terminal and yielded exactly once. When a host read
\* rejects, poll_next yields Some(Err(e)) for that poll and drops the
\* reader; every later poll_next returns None without a host call; the
\* items yielded hold at most one Err, and it is the last of them.
C5_ErrorTerminalOnce ==
  /\ []ErrIsLast
  /\ [][/\ ErrDropsReader
        /\ (PollStep /\ Terminated /\ EndedByError) => PollAfterEnd]_vars

\* A chunk, then the error, then a poll that returned None.
C5_Witness ==
  /\ Terminated /\ EndedByError /\ Len(out) >= 2
  /\ ret = Ret("poll_next", 0, "Ready", "None")
  /\ rs.state = "errored"

ReaderDrops == {"drop_reader", "drop_reader_opt", "drop_stream"}

\* The step drops a reader (or the IntoStream holding it) that has the lock.
DropsLockedReader == ret'.op \in ReaderDrops /\ ret'.who # 0 /\ rs.locked = ret'.who
DropsLockedWriter == ret'.op = "drop_writer" /\ ws.locked = ret'.who

\* C6: Drop releases lock. Dropping a reader, a writer or an IntoStream that
\* holds the handle's lock, while no host operation is pending on it, does
\* not panic and leaves the handle unlocked, so that a new reader / writer
\* can be acquired.
C6_DropReleasesLock ==
  [][/\ (DropsLockedReader /\ rs.reqs = <<>>)
          => /\ ret'.res = "Ok" /\ ~panicked'
             /\ calls' = <<"releaseLock">>
             /\ rs'.locked = 0 /\ HostGetReaderOk(rs')
             /\ rd'[ret'.who].st = "dropped"
     /\ (DropsLockedWriter /\ ws.reqs = <<>>)
          => /\ ret'.res = "Ok" /\ ~panicked'
             /\ calls' = <<"releaseLock">>
             /\ ws'.locked = 0 /\ HostGetWriterOk(ws')
             /\ wr'[ret'.who].st = "dropped"]_vars

\* A writer with no write in flight was dropped: the stream is unlocked.
C6_Witness ==
  /\ ret.op = "drop_writer" /\ ret.res = "Ok" /\ calls = <<"releaseLock">>
  /\ wr[ret.who].st = "dropped" /\ ws.locked = 0
  /\ ws.reqs = <<>>

\* A successful release_lock leaves the Option empty and the lock free of
\* its holder.
ReleasedIsCleared ==
  /\ (ret.op = "reader.release_lock" /\ ret.res = "Ok")
       => rd[ret.who].st = "released" /\ rs.locked # ret.who
  /\ (ret.op = "writer.release_lock" /\ ret.res = "Ok")
       => wr[ret.who].st = "released" /\ ws.locked # ret.who
  /\ \A r \in Readers : rd[r].st = "released" => rs.locked # r
  /\ \A w \in Writers : wr[w].st = "released" => ws.locked # w

\* release_lock on a released reader / writer: Ok, no host call, no change.
ReleaseAgainIsNoOp ==
  /\ (ret'.op = "reader.release_lock" /\ rd[ret'.who].st = "released")
       => ret'.res = "Ok" /\ calls' = <<>> /\ rs' = rs /\ rd' = rd /\ ~panicked'
  /\ (ret'.op = "writer.release_lock" /\ wr[ret'.who].st = "released")
       => ret'.res = "Ok" /\ calls' = <<>> /\ ws' = ws /\ wr' = wr /\ ~panicked'

\* C7: Release is idempotent. After a first successful release_lock on an
\* Option-based reader or writer, every further release_lock returns Ok,
\* makes no host call and changes nothing: the handle stays unlocked, the
\* state is the state after the first release.
C7_ReleaseIdempotent ==
  /\ []ReleasedIsCleared
  /\ [][ReleaseAgainIsNoOp]_vars

\* A release_lock on an already released reader: Ok, with no host call.
C7_Witness ==
  /\ ret.op = "reader.release_lock" /\ ret.res = "Ok" /\ calls = <<>>
  /\ rd[ret.who].st = "released" /\ rs.locked = 0

\* C8: Release while a read is pending fails without changing state.
\* try_release_lock called while a host read issued through the reader is
\* unresolved returns Err with the error and the same reader; the stream
\* stays locked to that reader and the read stays pending.
C8_TryReleasePending ==
  [][(ret'.op = "try_release_lock" /\ rs.locked = ret'.who /\ rs.reqs # <<>>)
       => /\ ret'.res = "Err" /\ ret'.val = "reader"
          /\ calls' = <<"releaseLock">>
          /\ rs' = rs /\ rd' = rd /\ futs' = futs
          /\ ~panicked']_vars

\* try_release_lock has failed on a reader with a pending read.
C8_Witness ==
  /\ ret.op = "try_release_lock" /\ ret.res = "Err"
  /\ rs.locked = ret.who /\ rs.reqs # <<>>
  /\ rd[ret.who].st = "live"

\* No reader or writer is gone while the handle is still locked to it.
NoSilentDrop ==
  /\ \A r \in Readers : rd[r].st = "dropped" => rs.locked # r
  /\ \A w \in Writers : wr[w].st = "dropped" => ws.locked # w
  /\ (ret.op \in ReaderDrops /\ ret.res = "Ok" /\ ret.who # 0) => rs.locked # ret.who
  /\ (ret.op = "drop_writer" /\ ret.res = "Ok") => ws.locked # ret.who

\* A drop with an operation pending calls the host's release; the reader's
\* is refused and the drop panics; the writer's either panics or, if the
\* host lets go, leaves the stream unlocked.
DropPendingIsLoud ==
  /\ (DropsLockedReader /\ rs.reqs # <<>>)
       => /\ calls' = <<"releaseLock">>
          /\ panicked' /\ ret'.res \in {"Throw", "Panic"}
          /\ rs' = rs
  /\ (DropsLockedWriter /\ ws.reqs # <<>>)
       => /\ calls' = <<"releaseLock">>
          /\ \/ panicked' /\ ret'.res = "Panic" /\ ws' = ws
             \/ ~panicked' /\ ret'.res = "Ok" /\ ws'.locked = 0

\* C9: Destruction with a pending operation is fatal, never swallowed. The
\* drop of a reader, a writer or an IntoStream that holds the lock attempts
\* the host release; when the host refuses because an operation is pending
\* the drop panics / throws; in no reachable state is a reader or writer
\* dropped while the handle is still locked to it.
C9_DropPendingFatal ==
  /\ []NoSilentDrop
  /\ [][DropPendingIsLoud]_vars

\* An IntoStream was dropped with its read pending: the drop threw.
C9_Witness ==
  /\ panicked /\ ret.op = "drop_stream" /\ ret.res = "Throw"
  /\ fut = "pending" /\ rs.locked = reader /\ reader # 0

IsPrefix(s, l) == Len(s) <= Len(l) /\ \A i \in DOMAIN s : s[i] = l[i]

\* What the IntoStream yields of a native stream of items src.all that
\* ends as src.end says.
Expected ==
  IF src.end = "error" THEN Append(src.all, "Some(Err)") ELSE src.all

\* C10: Round-trip. For every finite list L of items of a native stream,
\* from_stream followed by into_stream yields the items of L as Ok values in
\* the same order, none lost, duplicated or reordered, and then the end of
\* the sequence (after the native stream's error, if it ends with one).
C10_RoundTrip ==
  /\ IsPrefix(out, Expected)
  /\ (Terminated /\ src.end # "idle") => out = Expected
  /\ (ret.op = "poll_next" /\ ret.val = "None") => (Terminated /\ out = Expected)
  /\ src.end = "idle" => ~(stream.st = "live" /\ is_terminated)

\* Two different items went through, in order, and the sequence has ended.
C10_Witness ==
  /\ Terminated /\ src.end = "close"
  /\ ret.op = "poll_next" /\ ret.val = "None"
  /\ Len(out) >= 2 /\ out[1] # out[2] /\ out = src.all

\* The chunks of the source that reads have already returned: those that
\* have left the host's queue and sit in no read future.
Consumed ==
  Len(src.all) - Len(rs.queue) - Cardinality({h \in Holders : futs[h] \in Chunks})

\* A read that completes returns the next chunk in enqueue order, and
\* Ok(None) once every chunk has been returned.
ReadsInOrder ==
  (hooks.start = 1 /\ ret'.op = "read" /\ ret'.res \notin {"Pending", "Panic"})
    => /\ ret'.res = "Ok"
       /\ ret'.val = IF Consumed < Len(src.all) THEN src.all[Consumed + 1] ELSE "None"
       /\ Consumed' = IF Consumed < Len(src.all) THEN Consumed + 1 ELSE Consumed

\* After a read has returned Ok(None) the stream is closed, and closed() on
\* a reader of a closed stream returns Ok.
ClosedAfterEnd ==
  /\ (ret.op = "read" /\ ret.res = "Ok" /\ ret.val = "None")
       => (rs.state = "closed" /\ Consumed = Len(src.all))
  /\ (ret.op = "closed" /\ rs.state = "closed") => ret.res = "Ok"
  /\ (ret.op = "closed" /\ ret.res = "Ok") => Consumed = Len(src.all)
  /\ rs.state # "errored"

\* C11: For a source whose start hook enqueues chunks c1..cn and then
\* closes, successive reads return Ok(Some(c1)), ..., Ok(Some(cn)) in
\* enqueue order, the next read returns Ok(None), and closed() then
\* resolves Ok.
C11_StartSourceReads ==
  /\ []ClosedAfterEnd
  /\ [][ReadsInOrder]_vars

\* Two different chunks and the end were read, and closed() returned Ok.
C11_Witness ==
  /\ ret.op = "closed" /\ ret.res = "Ok"
  /\ Len(src.all) = 2 /\ src.all[1] # src.all[2]
  /\ Consumed = 2 /\ rd[ret.who].st = "live"

\* The pipe's last step: it acts on the other stream, lets go of both
\* locks and settles its promise.
PipeEnds == pipe.st = "ending" /\ pipe'.st = "done"

\* The destination still takes an abort (it is neither closed nor errored).
AbortReaches == ws.state \in {"writable", "closing"}

\* A pipe that ends because the source errored aborts the destination
\* with the source's error, unless asked not to: the abort hook of a
\* destination that still takes an abort is called, once.
SourceErrorAborts ==
  (PipeEnds /\ pipe.first = SrcErr /\ "prevent_abort" \notin pipe.asked)
    => /\ pipe.act = "abort"
       /\ IF AbortReaches
          THEN hooks'.abort = <<SrcErr>> /\ ws'.state = "errored"
          ELSE hooks'.abort = hooks.abort /\ ws'.state = ws.state

\* The sink's abort hook is called by a pipe only for an error of the
\* source, with that error, at most once, and never when prevent_abort is
\* set.
AbortOnlyForSourceError ==
  /\ "prevent_abort" \in pipe.asked => (hooks.abort = <<>> /\ pipe.act # "abort")
  /\ hooks.abort # <<>>
       => hooks.abort = <<SrcErr>> /\ rs.state = "errored" /\ pipe.first = SrcErr
  /\ pipe.first = SrcErr => rs.state = "errored"

\* C12: Pipe rule 1. If the source errors during pipe_to_with_options the
\* destination is aborted (the abort hook of a destination still open is
\* called with the source's error) when prevent_abort is false, and the
\* pipe never aborts it when prevent_abort is true.
C12_SourceErrorAborts ==
  /\ []AbortOnlyForSourceError
  /\ [][SourceErrorAborts]_vars

\* The source errored after a chunk had gone through: the sink was aborted.
C12_Witness ==
  /\ pipe.st = "done" /\ "prevent_abort" \notin pipe.asked
  /\ hooks.abort = <<SrcErr>> /\ hooks.written # <<>>
  /\ rs.state = "errored" /\ ws.state = "errored"

\* A pipe that ends because the destination errored cancels the source
\* with the destination's error, unless asked not to: the cancel hook of
\* a source still readable is called, once, and the source is closed.
DestErrorCancels ==
  (PipeEnds /\ pipe.first = SinkErr /\ "prevent_cancel" \notin pipe.asked)
    => /\ pipe.act = "cancel"
       /\ IF rs.state = "readable"
          THEN hooks'.cancel = <<SinkErr>> /\ rs'.state = "closed"
          ELSE hooks'.cancel = hooks.cancel /\ rs'.state = rs.state

\* The source's cancel hook is called by a pipe only for an error of the
\* destination or a destination closed from the start, with that error, at
\* most once, and never when prevent_cancel is set.
CancelOnlyForDest ==
  /\ "prevent_cancel" \in pipe.asked => (hooks.cancel = <<>> /\ pipe.act # "cancel")
  /\ hooks.cancel # <<>>
       => hooks.cancel = <<pipe.first>> /\ pipe.first \in {SinkErr, TypeError}
  /\ pipe.first = SinkErr => ws.state = "errored"

\* C13: Pipe rule 2. If the destination errors during pipe_to_with_options
\* (it rejects a write, say) the source is canceled (the cancel hook of a
\* source still readable is called with the destination's error) when
\* prevent_cancel is false, and the pipe never cancels it when
\* prevent_cancel is true.
C13_DestErrorCancels ==
  /\ []CancelOnlyForDest
  /\ [][DestErrorCancels]_vars

\* The sink rejected a write of the pipe: a source that would never have
\* closed by itself was canceled.
C13_Witness ==
  /\ pipe.st = "done" /\ "prevent_cancel" \notin pipe.asked
  /\ hooks.cancel = <<SinkErr>> /\ pipe.sent # <<>>
  /\ src.end = "idle" /\ rs.state = "closed" /\ ws.state = "errored"

\* A pipe that ends because the source closed closes a destination still
\* writable, after the sink has taken every chunk of the source, in
\* order; asked not to close, it leaves the destination as it is.
SourceCloseCloses ==
  (PipeEnds /\ pipe.first = "")
    => /\ rs.state = "closed"
       /\ IF "prevent_close" \in pipe.asked
          THEN pipe.act = "none" /\ ws'.state = ws.state /\ hooks' = hooks
          ELSE /\ pipe.act = "close"
               /\ IF ws.state = "writable"
                  THEN /\ hooks.written = src.all /\ pipe.sent = src.all
                       /\ futs[PipeFut] \notin Chunks /\ ws.reqs = <<>>
                       /\ hooks'.close = hooks.close + 1
                       /\ hooks'.written = hooks.written
                       /\ ws'.state \in {"closed", "errored"}
                  ELSE hooks' = hooks /\ ws'.state = ws.state

\* A pipe asked not to close never calls the sink's close hook and never
\* closes the destination.
PreventCloseKeepsOpen ==
  (pipe.st \in {"piping", "ending"} /\ "prevent_close" \in pipe.asked)
    => /\ hooks'.close = hooks.close
       /\ ws.state = "writable" => ws'.state \in {"writable", "errored"}

\* C14: Pipe rule 3. When the source closes normally during
\* pipe_to_with_options, the destination is closed after all chunks read
\* from the source have been written to it when prevent_close is false,
\* and is left open (not closed by the pipe) when prevent_close is true.
C14_SourceCloseCloses ==
  [][SourceCloseCloses /\ PreventCloseKeepsOpen]_vars

\* Two different chunks went through the pipe, then the sink was closed.
C14_Witness ==
  /\ pipe.st = "done" /\ pipe.promise = "ok" /\ "prevent_close" \notin pipe.asked
  /\ Len(src.all) = 2 /\ src.all[1] # src.all[2] /\ hooks.written = src.all
  /\ hooks.close = 1 /\ ws.state = "closed"

\* The destination was closing or closed when the pipe began: a pipe still
\* running can only have found it so (the pipe closes it with its last step).
DestClosedFromStart ==
  pipe.st \in {"piping", "ending"} /\ ws.state \in {"closing", "closed"}

\* Such a pipe writes nothing, and the sink takes nothing.
ClosedDestGetsNothing ==
  DestClosedFromStart => (pipe.sent = <<>> /\ hooks.written = <<>>)

\* With the source still readable, the pipe shuts down for the closed
\* destination, to cancel the source unless asked not to.
ClosedDestShutsDown ==
  (DestClosedFromStart /\ rs.state = "readable" /\ pipe'.st = "ending" /\ pipe.st = "piping")
    => /\ pipe'.first = TypeError
       /\ pipe'.act = IF "prevent_cancel" \in pipe.asked THEN "none" ELSE "cancel"

\* Its last step cancels a source still readable (the cancel hook is
\* called and the source closes), or with prevent_cancel leaves the
\* source alone; no chunk is written either way.
ClosedDestCancels ==
  (PipeEnds /\ pipe.first = TypeError)
    => /\ pipe.sent = <<>> /\ hooks'.written = <<>> /\ ws'.reqs = <<>>
       /\ IF "prevent_cancel" \notin pipe.asked /\ rs.state = "readable"
          THEN hooks'.cancel = <<TypeError>> /\ rs'.state = "closed"
          ELSE hooks'.cancel = hooks.cancel /\ rs'.state = rs.state
       /\ "prevent_cancel" \in pipe.asked => hooks'.cancel = <<>>

\* C15: Pipe rule 4. If the destination is already closed or closing when
\* pipe_to_with_options starts, the source is canceled when prevent_cancel
\* is false and is not canceled when prevent_cancel is true; in both cases
\* no chunk is written to the destination.
C15_ClosedDestCancels ==
  /\ []ClosedDestGetsNothing
  /\ [][ClosedDestShutsDown /\ ClosedDestCancels]_vars

\* A source with chunks to give was piped to a closed destination: it was
\* canceled and nothing was written.
C15_Witness ==
  /\ pipe.st = "done" /\ pipe.first = TypeError /\ "prevent_cancel" \notin pipe.asked
  /\ hooks.cancel = <<TypeError>> /\ hooks.written = <<>> /\ pipe.sent = <<>>
  /\ src.all # <<>> /\ ws.state = "closed" /\ rs.state = "closed"

\* The first error the pipe met: the one it shut down for, else the one
\* its closing of the destination failed with.
FirstError == IF pipe.first # "" THEN pipe.first ELSE pipe.err

\* The errors the pipe's own action on the other stream can fail with.
ActionErrors ==
  IF pipe.act = "abort" THEN {"AbortErr"}
  ELSE IF pipe.act = "cancel" THEN {"CancelErr", SrcErr}
  ELSE IF pipe.act = "close" THEN {"CloseErr", SinkErr}
  ELSE {}

PipeReturned == ret.op = "pipe"

PipeRunning == pipe.promise = "pending"

SourceAcquire == {"try_get_reader", "try_into_stream", "try_tee"}

\* While the pipe runs the source is locked, to the pipe.
LockedWhilePiping == PipeRunning => (rs.locked = PipeFut /\ ~HostGetReaderOk(rs))

\* A reader, an IntoStream or a tee attempted while the pipe runs fails
\* and makes nothing.
AcquireFailsWhilePiping ==
  (PipeRunning /\ ret'.op \in SourceAcquire)
    => /\ ret'.res = "Err"
       /\ rs' = rs /\ rd' = rd /\ stream' = stream /\ tee' = tee

\* The step that settles the pipe's promise leaves the source unlocked,
\* and an attempt on the unlocked source succeeds.
UnlockedAfterPipe ==
  /\ (PipeRunning /\ ~PipeRunning') => (rs'.locked = 0 /\ HostGetReaderOk(rs'))
  /\ (pipe.st = "done" /\ rs.locked = 0 /\ ret'.op \in SourceAcquire)
       => (ret'.res = "Ok" /\ rs'.locked # 0)

\* C17: Pipe holds the lock for its duration. From the start of pipe_to
\* until its promise is settled the source is locked, so that any
\* try_get_reader / try_into_stream / try_tee in that interval fails;
\* once the pipe has settled the source is unlocked again.
C17_PipeHoldsLock ==
  /\ []LockedWhilePiping
  /\ [][AcquireFailsWhilePiping /\ UnlockedAfterPipe]_vars

\* A tee was refused on the source of a pipe that had already moved a chunk.
C17_Witness ==
  /\ ret.op = "try_tee" /\ ret.res = "Err"
  /\ PipeRunning /\ pipe.sent # <<>> /\ rs.locked = PipeFut

\* ------------------------------------------------------------------ C18
\* A step that cancels a branch of the tee.
CancelsBranch == ret'.op = "branch.cancel"

\* Canceling one branch while the other is not canceled leaves the
\* source's cancel hook uncalled.
OneBranchCanceledNoHook ==
  (CancelsBranch /\ ~tee.canceled[Other(ret'.who)]) => hooks'.cancel = hooks.cancel

\* Canceling the second branch of a tee whose original stream is still
\* readable calls the cancel hook, with the two reasons the branches were
\* canceled with.
BothCanceledHook ==
  (CancelsBranch /\ tee.canceled[Other(ret'.who)] /\ rs.state = "readable")
    => hooks'.cancel = <<tee'.asked>>

\* The cancel hook is called by nothing but the cancel of the second branch.
HookOnlyByBothCanceled ==
  hooks'.cancel # hooks.cancel
    => CancelsBranch /\ tee'.canceled[1] /\ tee'.canceled[2]

\* The cancel hook is called at most once, and then with the composite of
\* the two reasons.
HookAtMostOnce ==
  /\ Len(hooks.cancel) <= 1
  /\ hooks.cancel # <<>> =>
       /\ tee.canceled[1] /\ tee.canceled[2]
       /\ hooks.cancel[1] = tee.asked
       /\ tee.asked \in Reasons \X Reasons

BranchExpected == Append(src.all, "None")

\* A branch that was not canceled yields the source's chunks in order, and
\* its end only after all of them.
BranchInOrder(i) ==
  (src.end = "close" /\ ~tee.canceled[i])
    => /\ IsPrefix(tee.br[i].got, BranchExpected)
       /\ BranchEnded(tee.br[i]) => tee.br[i].got = BranchExpected

\* The i-th chunk one branch has read is the i-th chunk the other has read.
BranchesAgree ==
  \A k \in DOMAIN tee.br[1].got \cap DOMAIN tee.br[2].got :
    (tee.br[1].got[k] \in Chunks /\ tee.br[2].got[k] \in Chunks)
      => tee.br[1].got[k] = tee.br[2].got[k]

\* C19: Tee sharing. After the tee of a source that produces c1..cn and
\* closes, each of the two branches, read in any interleaving with the
\* other, yields exactly c1..cn in order and then the end of the sequence,
\* and the i-th chunk of one branch is the i-th chunk of the other.
C19_TeeShares ==
  /\ \A i \in Branches : BranchInOrder(i)
  /\ BranchesAgree

\* Both branches have read the same two different chunks and the end.
C19_Witness ==
  /\ src.end = "close" /\ Len(src.all) = 2 /\ src.all[1] # src.all[2]
  /\ ~tee.canceled[1] /\ ~tee.canceled[2]
  /\ tee.br[1].got = BranchExpected /\ tee.br[2].got = BranchExpected

\* ------------------------------------------------------------------ C20
\* A step that is try_tee or try_into_stream on a locked stream.
TriesOnLocked == ret'.op \in {"try_tee", "try_into_stream"} /\ rs.locked # 0

\* Such a call returns Err with the stream, makes no branch, reader or
\* IntoStream, and leaves the stream as it was, locked to whom it was.
FailsAndGivesBack ==
  TriesOnLocked
    => /\ ret'.res = "Err" /\ ret'.val = "stream"
       /\ rs' = rs /\ rd' = rd /\ stream' = stream /\ tee' = tee /\ futs' = futs

\* C20: try_tee and try_into_stream called on a readable stream that is
\* already locked return Err carrying the error together with the original
\* ReadableStream, create no branch, reader or stream, and leave the lock
\* state unchanged (still locked to the existing reader).
C20_TryOnLocked == [][FailsAndGivesBack]_vars

\* try_tee failed on a stream locked to the reader of a live IntoStream,
\* which still holds the lock; no branch exists.
C20_Witness ==
  /\ ret.op = "try_tee" /\ ret.res = "Err" /\ ret.val = "stream"
  /\ stream.st = "live" /\ rs.locked = stream.reader /\ rd[stream.reader].st = "live"
  /\ tee = NoTee

\* ------------------------------------------------------------------ C21
\* What the host settles the promise of a write, close or abort with.
HostAcks == {"ok", "closed", "aborted"}
HostRejects == {"err", "close_err", "abort_err"}

\* A write, close or abort that returns, returns Err when the host has
\* rejected its promise and Ok when the host has fulfilled it.
WriterSurfaces ==
  (ret'.op \in {"write", "close", "abort"} /\ ret'.res # "Pending")
    => /\ wr[ret'.who].fut \in HostAcks \cup HostRejects
       /\ ret'.res = "Err" <=> wr[ret'.who].fut \in HostRejects
       /\ ret'.res = "Ok" <=> wr[ret'.who].fut \in HostAcks

\* C21: WritableStreamDefaultWriter::write, close and abort each return
\* Err whenever the host rejects the call, and Ok(()) only when the host
\* acknowledges it; no host rejection is turned into Ok.
C21_WriterSurfacesErrors == [][WriterSurfaces]_vars

\* A close returned Err: the sink's close hook had run and failed.
C21_Witness ==
  /\ ret.op = "close" /\ ret.res = "Err"
  /\ hooks.close = 1 /\ ws.state = "errored"

\* ------------------------------------------------------------------ C22
\* The sink issues a host write only when the host has no write of it in
\* flight, and the host never has two.
WritesOneAtATime ==
  (sink.st = "live" /\ calls' = <<"write">>) => (ws.reqs = <<>> /\ Len(ws'.reqs) <= 1)

\* The sink issues its close to a stream that is writable (so it is the
\* first close) and has no write in flight.
CloseAfterWrites ==
  (sink.st = "live" /\ calls' = <<"close">>)
    => (ws.state = "writable" /\ ws.reqs = <<>> /\ hooks.close = 0)

\* The destination has taken a prefix of what the sink was sent, in send
\* order; its close hook runs after all of it.
SinkLog ==
  /\ Len(ws.reqs) <= 1
  /\ IsPrefix(hooks.written, sink.sent)
  /\ hooks.close = 1 => (hooks.written = sink.sent /\ ws.reqs = <<>>)

\* The close of a sink that still had its writer returns Ok only with the
\* destination closed after everything sent.
CloseOkIsClosed ==
  (ret'.op = "poll_close" /\ ret'.res = "Ok" /\ sink.writer # 0)
    => (ws'.state = "closed" /\ hooks'.close = 1 /\ hooks'.written = sink'.sent)

\* C22: Sink serializes writes. For a sink built from a writer with
\* into_sink, no host write is issued while an earlier host write of the
\* sink is unresolved, and the destination observes the sent items in send
\* order followed by a single close.
C22_SinkSerializes ==
  /\ []SinkLog
  /\ [][WritesOneAtATime /\ CloseAfterWrites /\ CloseOkIsClosed]_vars

\* Two different items were sent and the sink closed: the destination took
\* them in order and was closed once.
C22_Witness ==
  /\ ret.op = "poll_close" /\ ret.res = "Ok"
  /\ Len(sink.sent) = 2 /\ sink.sent[1] # sink.sent[2]
  /\ hooks.written = sink.sent /\ hooks.close = 1 /\ ws.state = "closed"

\* ------------------------------------------------------------------ C23
\* C23: Hook borrows never conflict. No hook calls borrow_mut on the shared
\* backing object while another hook's invocation still holds its borrow
\* across a suspension point: in every interleaving of the host's calls,
\* a cancel arriving while a pull has not resolved included, the exclusive
\* borrow succeeds.
C23_Original == js.borrow # "conflict"

\* ------------------------------------------------------------------ C24
\* The closures are as their wrapper is: alive while it lives, leaked once
\* it was forgotten, released once it was dropped; a raw transform stream
\* has none. A call of the host found no closure only after a drop.
ClosuresFollowWrapper ==
  /\ js.kind \in {"source", "transformer"} =>
       /\ js.wrapper = "live" => js.closures = "alive"
       /\ js.wrapper = "forgotten" => js.closures = "leaked"
       /\ js.wrapper = "dropped" => js.closures = "released"
  /\ js.kind = "raw" => js.closures = "none"
  /\ js.deadcall => js.wrapper = "dropped"

\* Leaked closures stay leaked.
LeakedForEver == js.closures = "leaked" => js'.closures = "leaked"

\* Released closures stay released, and no hook starts behind them.
ReleasedNeverRuns ==
  js.closures = "released" =>
    /\ js'.closures = "released"
    /\ js'.inflight \subseteq js.inflight

\* forget on a raw transform stream gives the raw stream and leaks nothing.
RawForget ==
  (js.kind = "raw" /\ js.wrapper = "live" /\ js'.wrapper = "forgotten") =>
    /\ ret'.res = "Ok" /\ ret'.val = "raw"
    /\ js'.closures = "none"

\* C24: callback liveness. The closures registered with the host are alive
\* while the wrapper that owns them exists, and for ever after forget();
\* once the wrapper was dropped without forget() they are released and the
\* host can no longer run them. forget() on a TransformStream made from a
\* raw stream returns the raw stream and leaks nothing.
C24_CallbackLiveness ==
  []ClosuresFollowWrapper /\ [][LeakedForEver /\ ReleasedNeverRuns /\ RawForget]_vars

\* The wrapper was dropped, and the host then called a closure in vain.
C24_Witness == js.kind = "source" /\ js.wrapper = "dropped" /\ js.deadcall /\ rs.state = "errored"

\* ------------------------------------------------------------------ C25
\* A step is a cancel of the stream itself, made while it is locked.
CancelOnLocked == ret'.op = "cancel" /\ ret'.who = 0 /\ calls' = <<"cancel">> /\ rs.locked # 0

\* C25: cancel on a locked stream fails. ReadableStream::cancel /
\* cancel_with_reason called while the stream is locked to a reader returns
\* Err, does not call the source's cancel hook, and leaves the stream locked
\* and otherwise unchanged.
C25_CancelOnLocked ==
  [][CancelOnLocked =>
       /\ ret'.res = "Err"
       /\ hooks' = hooks /\ js' = js
       /\ rs' = rs /\ futs' = futs /\ rd' = rd]_vars

\* A cancel of a readable stream locked to a reader with a read pending
\* has failed, and no cancel hook has run.
C25_Witness ==
  /\ ret.op = "cancel" /\ ret.res = "Err" /\ ret.val = TypeError
  /\ rs.locked # 0 /\ rs.state = "readable" /\ rs.reqs # <<>>
  /\ hooks.cancel = <<>> /\ js.kind = "none"

\* ------------------------------------------------------------------ C27
\* A step is a cancel through the reader that holds the lock.
ReaderCancels == ret'.op = "reader.cancel" /\ rs.locked = ret'.who /\ rs.locked # 0

\* After a cancel through the reader no read is pending, whatever was
\* pending before, and the stream is no longer readable.
CancelClearsReads == ReaderCancels => (rs'.reqs = <<>> /\ rs'.state # "readable")

\* A stream that is no longer readable has no read pending, and never
\* becomes readable again.
EndedHasNoReads ==
  rs.state # "readable" => (rs.reqs = <<>> /\ rs'.state # "readable" /\ rs'.reqs = <<>>)

\* A step gives back the lock of the reader that holds it, by release or
\* by drop.
Releases ==
  /\ ret'.op \in {"release_lock(self)", "drop_reader", "reader.release_lock", "drop_reader_opt"}
  /\ rs.locked = ret'.who /\ rs.locked # 0

\* The release of a stream that is no longer readable succeeds.
ReleaseAfterCancel ==
  (Releases /\ rs.state # "readable") =>
    (ret'.res = "Ok" /\ ~panicked' /\ rs'.locked = 0)

\* C27: cancel before release. When a read was started on a reader and its
\* future abandoned before it resolved, then once reader.cancel() has
\* resolved no read is pending on the reader, and the release that follows,
\* explicit or by drop, succeeds.
C27_CancelBeforeRelease ==
  [][CancelClearsReads /\ EndedHasNoReads /\ ReleaseAfterCancel]_vars

\* A reader was dropped or released with success after a cancel that the
\* source's hook has seen, with no read left pending.
C27_Witness ==
  /\ ret.op \in {"drop_reader", "drop_reader_opt"} /\ ret.res = "Ok"
  /\ hooks.cancel # <<>> /\ rs.state = "closed" /\ rs.locked = 0
  /\ js.kind = "none" /\ ~panicked

\* ------------------------------------------------------------------ C26
\* What is_terminated() returns on the live IntoStream.
SaysTerminated == stream.st = "live" /\ is_terminated

\* is_terminated() is true exactly when the reader and the cached future
\* are both absent.
TerminatedExact ==
  stream.st = "live" => (is_terminated <=> (stream.reader = 0 /\ futs[StreamFut] = "none"))

\* It becomes true only in a poll_next that delivers the done result or
\* the error.
TerminatedOnlyAfterEnd ==
  (stream.st = "live" /\ ~SaysTerminated /\ SaysTerminated') =>
    /\ ret'.op = "poll_next" /\ ret'.res = "Ready"
    /\ ret'.val \in {"None", "Some(Err)"}

\* It is not true of an IntoStream that was just made.
FreshNotTerminated == (stream.st # "live" /\ stream'.st = "live") => ~SaysTerminated'

\* Once true it stays true while the IntoStream lives, and a poll_next
\* returns Ready(None) without a call of the host.
TerminatedStable ==
  (SaysTerminated /\ stream'.st = "live") =>
    /\ SaysTerminated'
    /\ ret'.op = "poll_next" => (ret'.res = "Ready" /\ ret'.val = "None" /\ calls' = <<>>)

\* C26: is_terminated is exact and stable. It is true if and only if both
\* the reader and the cached read future are absent; it becomes true only
\* after a done result or an error has been delivered; once true it stays
\* true under any further poll_next, each of which returns Ready(None).
C26_IsTerminated ==
  /\ []TerminatedExact
  /\ [][TerminatedOnlyAfterEnd /\ FreshNotTerminated /\ TerminatedStable]_vars

\* A terminated IntoStream that delivered the error was polled again.
C26_Witness ==
  /\ SaysTerminated /\ ret.op = "poll_next" /\ ret.val = "None" /\ calls = <<>>
  /\ out # <<>> /\ out[Len(out)] = "Some(Err)"

\* ------------------------------------------------------------------ C30
\* While the IntoStream has its reader, the stream is locked to it.
LockedWhileLive ==
  (stream.st = "live" /\ stream.reader # 0) =>
    (rs.locked = stream.reader /\ rd[stream.reader].st = "live")

\* The IntoStream loses its reader only when it delivers the done result
\* or the error, and the lock is released in that step.
ReaderUntilEnd ==
  (stream.st = "live" /\ stream.reader # 0 /\ stream'.st = "live" /\ stream'.reader = 0) =>
    /\ ret'.op = "poll_next" /\ ret'.res = "Ready" /\ ret'.val \in {"None", "Some(Err)"}
    /\ rs'.locked = 0

\* A poll_next that delivers the done result or the error gives up the
\* reader and the lock; one that delivers a chunk keeps both.
DeliveryAndLock ==
  (ret'.op = "poll_next" /\ ret'.res = "Ready" /\ stream.reader # 0) =>
    IF ret'.val \in {"None", "Some(Err)"}
    THEN panicked' \/ (stream'.reader = 0 /\ rs'.locked = 0)
    ELSE stream'.reader = stream.reader /\ rs'.locked = rs.locked

\* A drop of the IntoStream gives up the lock.
DropUnlocks ==
  (stream.st = "live" /\ stream.reader # 0 /\ stream'.st # "live") =>
    (panicked' \/ rs'.locked = 0)

\* C30: the lock is held exactly while the sequence is live. From the
\* making of an IntoStream until it delivers a done result or an error or is
\* dropped, its reader is present and the stream is locked; delivering a
\* chunk keeps the reader and the lock; the lock is released in the step
\* that delivers the done result or the error, so that a new reader can be
\* taken once the sequence has ended.
C30_LockWhileLive ==
  /\ []LockedWhileLive
  /\ [][ReaderUntilEnd /\ DeliveryAndLock /\ DropUnlocks]_vars

\* The IntoStream delivered chunks and then the done result, which
\* released the lock.
C30_Witness ==
  /\ stream.st = "live" /\ stream.reader = 0 /\ rs.locked = 0
  /\ ret.op = "poll_next" /\ ret.val = "None" /\ calls = <<"releaseLock">>
  /\ out # <<>>

\* ------------------------------------------------------------------ C28
\* f(w_k): what the readable side is due for the k-th chunk written.
Due(k) ==
  IF js.kind = "raw" /\ js.map = "upper" THEN Upper(src.all[k]) ELSE src.all[k]

\* What the IntoStream over the readable side has yielded is f(w1), f(w2),
\* ... in the order of the writes.
YieldsInOrder ==
  /\ Len(out) <= Len(hooks.written)
  /\ \A k \in 1..Len(out) : out[k] = Due(k)

\* When the IntoStream ends, the writable side was closed, every chunk
\* written had gone through the transformer, and every one was yielded.
YieldsAll ==
  (ret'.op = "poll_next" /\ ret'.res = "Ready" /\ ret'.val = "None" /\ stream.reader # 0) =>
    /\ hooks.close = 1 /\ ws.state = "closed" /\ ws.reqs = <<>>
    /\ Len(out') = Len(hooks.written)

\* A read of a reader on the readable side returns the next f(w_k), or the
\* end once the writable side was closed and nothing is left; never an error.
ReaderReadsInOrder ==
  (ret'.op = "read" /\ ret'.res # "Pending") =>
    /\ ret'.res = "Ok"
    /\ IF ret'.val = "None"
       THEN hooks.close = 1 /\ rs.queue = <<>> /\ ws.state = "closed"
       ELSE LET k == Len(hooks.written) - Len(rs.queue)
            IN  k >= 1 /\ ret'.val = Due(k)

\* The default transform passes each chunk on as it is.
DefaultPasses == js.kind = "transformer" => \A k \in 1..Len(out) : out[k] = src.all[k]

\* C28: transform stream order and closure. For chunks w1..wn written in
\* order to the writable side of a TransformStream and then a close, with the
\* readable side read meanwhile, the reader obtains f(w1)..f(wn) in the order
\* of the writes and then the end, f being the transformer's mapping; with
\* the default Transformer::transform the reader obtains exactly w1..wn.
C28_TransformOrder ==
  /\ [](YieldsInOrder /\ DefaultPasses)
  /\ [][YieldsAll /\ ReaderReadsInOrder]_vars

\* Two chunks went through a transformer of the crate with the default
\* transform, the writer closed, and the IntoStream yielded both and ended.
C28_Witness ==
  /\ js.kind = "transformer" /\ src.all = <<"a", "b">>
  /\ out = <<"a", "b">> /\ hooks.close = 1
  /\ ret.op = "poll_next" /\ ret.val = "None"

\* ------------------------------------------------------------------ C29
\* C29: the source's hooks stay invocable through into_stream. For a
\* ReadableStream made with ReadableStream::new(source) and converted with
\* into_stream, the source's closures are alive at every moment at which the
\* host calls them while the returned stream is polled: the host never
\* finds a closure gone.
C29_Original == (js.kind = "source" /\ stream.st = "live") => ~js.deadcall

\* ------------------------------------------------------------------ C31
\* C31: the pending-read cache implies a reader. In every reachable state
\* of an IntoStream a cached read future implies a present reader: a state
\* with a cached read and no reader is not reached by any sequence of
\* poll_next calls and resolutions of the host.
C31_FutImpliesReader ==
  futs[StreamFut] # "none" => (stream.st = "live" /\ stream.reader # 0)

\* The IntoStream has yielded a chunk and holds a pending read, with its
\* reader.
C31_Witness ==
  /\ stream.st = "live" /\ stream.reader # 0
  /\ futs[StreamFut] = "pending" /\ out # <<>>

\* ------------------------------------------------------------------ C32
\* A poll_next gives up the reader of the IntoStream, or tries to.
PollDropsReader ==
  /\ ret'.op = "poll_next" /\ stream.st = "live" /\ stream.reader # 0
  /\ calls' = <<"releaseLock">>

\* C32: the drop of the reader inside poll_next, on a done result or an
\* error, happens with no read pending on the reader: the cached future has
\* resolved and is cleared, the host holds no read request, and the release
\* succeeds, never the release-while-pending failure.
C32_DropWithoutPending ==
  [][PollDropsReader =>
       /\ Settled(futs[StreamFut]) /\ futs'[StreamFut] = "none"
       /\ rs.reqs = <<>>
       /\ ret'.val \in {"None", "Some(Err)"}
       /\ ~panicked' /\ stream'.reader = 0 /\ rs'.locked = 0]_vars

\* The IntoStream delivered the error of the source and gave up its reader
\* and its lock in that poll.
C32_Witness ==
  /\ ret.op = "poll_next" /\ ret.val = "Some(Err)" /\ calls = <<"releaseLock">>
  /\ stream.st = "live" /\ stream.reader = 0 /\ rs.locked = 0 /\ ~panicked

\* ------------------------------------------------------------------ C33
\* C33: when the host resolves every read it was asked and the source
\* closes or errors, an IntoStream that is polled again after each wake-up
\* eventually is terminated (is_terminated() is true), and the stream it
\* came from eventually is unlocked.
C33_EventuallyTerminated ==
  (stream.st = "live" /\ ~SaysTerminated) ~> (SaysTerminated /\ rs.locked = 0)

\* The IntoStream has yielded every chunk of the source, is terminated,
\* and the stream is unlocked.
C33_Witness ==
  /\ SaysTerminated /\ rs.locked = 0 /\ rs.state = "closed"
  /\ src.all # <<>> /\ out = src.all

\* ------------------------------------------------------------------ C34
\* A step is made through the Option-based reader r after its release_lock
\* has succeeded.
ThroughReleasedReader(r) ==
  /\ rd[r].kind = "opt" /\ rd[r].st = Taken
  /\ ret'.who = r
  /\ ret'.op \in ReaderOps \cup {"reader.release_lock", "drop_reader_opt"}

\* A step is made through the writer w after its release_lock has succeeded.
ThroughReleasedWriter(w) ==
  /\ wr[w].st = Taken
  /\ ret'.who = w
  /\ ret'.op \in WriterOps \cup {"writer.release_lock", "drop_writer"}

\* Such a step calls nothing of the host and leaves the streams alone: a
\* release or the drop succeeds, any other method panics.
NothingAfterRelease(skips) ==
  /\ calls' = <<>>
  /\ rs' = rs /\ ws' = ws /\ futs' = futs
  /\ IF ret'.op \in skips
     THEN ret'.res = "Ok" /\ ~panicked'
     ELSE ret'.res = "Panic" /\ panicked'

\* A released capability does not get its handle back.
StaysReleased ==
  /\ \A r \in Readers :
       (rd[r].kind = "opt" /\ rd[r].st = Taken) => rd'[r].st \in {Taken, "dropped"}
  /\ \A w \in Writers : wr[w].st = Taken => wr'[w].st \in {Taken, "dropped"}

\* C34: in the Option-based reader and writer, once release_lock has
\* succeeded no host operation is issued through the capability any more:
\* later release_lock calls and the drop skip the host call, and any other
\* method fails in as_raw, on the cleared handle, before it reaches the host.
C34_NothingAfterRelease ==
  [][/\ \A r \in Readers :
          ThroughReleasedReader(r) => NothingAfterRelease({"reader.release_lock", "drop_reader_opt"})
     /\ \A w \in Writers :
          ThroughReleasedWriter(w) => NothingAfterRelease({"writer.release_lock", "drop_writer"})
     /\ StaysReleased]_vars

\* A writer that had released its lock was asked to close: it
\* panicked, and the host was not called.
C34_Witness ==
  /\ ret.op = "close" /\ ret.res = "Panic" /\ calls = <<>> /\ panicked
  /\ wr[ret.who].st = Taken /\ ws.locked = 0 /\ ws.state = "writable"

====
